---- MODULE Spec2Model ----
(***************************************************************************)
(* A model of Py2DM's format engine: the Writer (src/py2dm/_write.py),     *)
(* the entities' to_line / from_line (src/py2dm/_entities.py), the card    *)
(* grammar and the metadata scan (src/py2dm/_parser.py), the entity       *)
(* loader and merge_meshes (src/py2dm/utils.py) and the Reader             *)
(* (src/py2dm/_read.py).                                                   *)
(*                                                                         *)
(* Text is modelled token by token: a physical line is a record with the   *)
(* whitespace-separated tokens it holds and a flag telling whether the     *)
(* line starts with whitespace.  A token is a word, an integer literal     *)
(* (sign and magnitude, so that "-0" is representable) or a float literal  *)
(* in scientific notation.                                                 *)
(***************************************************************************)
EXTENDS Integers, Sequences, FiniteSets, TLC

(***************************************************************************)
(* Bounds of the model.                                                    *)
(***************************************************************************)
\* Largest number of entities (of all kinds together) inserted into a Writer.
MaxEntities == 3

\* Largest number of lines of a file given to the metadata scan.
MaxScanLines == 4

\* Largest number of nodes, of elements and of node strings of a mesh that
\* is written and loaded again.
MaxPerKind == 2

\* Largest number of node tokens of a node string given to the parsers.
MaxNodeTokens == 3

\* Largest number of nodes given to the constructor of an element.
MaxElementNodes == 10

\* Largest number of nodes given to the constructor of a node string.
MaxStringNodes == 4

\* Largest fold width given to NodeString.to_line.
MaxFold == 3

\* Largest number of objects in the heap.
MaxObjects == 3

\* Largest number of instances the caller of the Writer constructs.
MaxHeld == 1

\* Largest number of nodes of a mesh given to merge_meshes.
MaxMergeNodes == 2

(***************************************************************************)
(* Generic helpers.                                                        *)
(***************************************************************************)
Range(s) == {s[i] : i \in 1..Len(s)}

Abs(i) == IF i < 0 THEN -i ELSE i

Last(s) == s[Len(s)]

\* s[:n] of Python for n >= 0.
Take(s, n) == SubSeq(s, 1, IF n < Len(s) THEN n ELSE Len(s))

RECURSIVE Flatten(_)
Flatten(ss) == IF ss = <<>> THEN <<>> ELSE Head(ss) \o Flatten(Tail(ss))

(***************************************************************************)
(* Tokens and lines.                                                       *)
(***************************************************************************)
\* A word such as a card name or a node string name.
Word(s) == [t |-> "w", s |-> s, neg |-> FALSE, v |-> 0]

\* The text of an integer: an optional minus sign and the digits of v.
IntTok(neg, v) == [t |-> "i", s |-> "", neg |-> neg, v |-> v]

\* The text of a float in scientific notation; v is the value in units of
\* 1e-4 as far as the printed digits tell it.
FloatTok(neg, v) == [t |-> "f", s |-> "", neg |-> neg, v |-> v]

\* The newline "word" NodeString.to_line puts between folded lines.
NewLine == [t |-> "nl", s |-> "", neg |-> FALSE, v |-> 0]

\* str(i) / f'{i:8}' for an integer i: the padding is whitespace.
StrInt(i) == IntTok(i < 0, Abs(i))

\* int(token): the value of an integer literal ("-0" is 0).
IntOf(tok) == IF tok.neg THEN -tok.v ELSE tok.v

\* A physical line: lead tells whether it starts with whitespace.
Line(lead, toks) == [lead |-> lead, toks |-> toks]

IsBlank(line) == line.toks = <<>>

\* line.startswith(card + ' ') for a card without whitespace: the card is
\* the first thing of the line and a further token follows it.
StartsWithCard(line, card) ==
    /\ ~line.lead
    /\ Len(line.toks) >= 2
    /\ line.toks[1] = Word(card)

\* The physical lines of f'{" ".join(words)}\n': the text is cut at every
\* newline word, and the blank that join() puts after a newline word makes
\* the next physical line start with whitespace.
RECURSIVE SplitWords(_, _, _)
SplitWords(words, lead, acc) ==
    IF words = <<>> THEN <<Line(lead, acc)>>
    ELSE IF Head(words) = NewLine
         THEN <<Line(lead, acc)>> \o SplitWords(Tail(words), TRUE, <<>>)
         ELSE IF Head(words).t = "w" /\ Head(words).s = ""
              THEN SplitWords(Tail(words), lead, acc)
              ELSE SplitWords(Tail(words), lead, Append(acc, Head(words)))

JoinWords(words) == SplitWords(words, FALSE, <<>>)

(***************************************************************************)
(* Entities (src/py2dm/_entities.py).                                      *)
(*   Node        [card, id, x, y, z]   coordinates in units of 1e-4        *)
(*   Element     [card, id, nodes, materials]                              *)
(*   NodeString  [card, nodes, name]   name is <<>> for None, else <<s>>   *)
(* A material is [isint, v]: an int v, or a float of v units of 1e-4.      *)
(***************************************************************************)
Node(id, x, y, z) == [card |-> "ND", id |-> id, x |-> x, y |-> y, z |-> z]

Element(card, id, nodes, materials) ==
    [card |-> card, id |-> id, nodes |-> nodes, materials |-> materials]

NodeString(nodes, name) == [card |-> "NS", nodes |-> nodes, name |-> name]

IntMat(v) == [isint |-> TRUE, v |-> v]

FloatMat(v) == [isint |-> FALSE, v |-> v]

\* Element.num_materials
num_materials_of(e) == Len(e.materials)

\* Number of nodes of the element cards.
nodes_per_element(card) ==
    CASE card = "E2L" -> 2
      [] card \in {"E3L", "E3T"} -> 3
      [] card = "E4Q" -> 4
      [] card = "E6T" -> 6
      [] card = "E8Q" -> 8
      [] card = "E9Q" -> 9
      [] OTHER -> -1

ELEMENT_CARDS == {"E2L", "E3L", "E3T", "E4Q", "E6T", "E8Q", "E9Q"}

\* The constructor of the Element base class, which has no num_nodes and
\* takes any number of nodes.
element_init_unchecked(card, id_, nodes, materials) ==
    [exc |-> "none", val |-> Element(card, id_, nodes, materials)]

\* <Element subclass>(id_, *nodes, materials=materials); materials is <<>>
\* for None.  The outcome is [exc, val] as for the parsers below.
element_init(card, id_, nodes, materials) ==
    IF nodes_per_element(card) >= 0 /\ Len(nodes) # nodes_per_element(card)
    THEN [exc |-> "CardError", val |-> <<>>]
    ELSE [exc |-> "none", val |-> Element(card, id_, nodes, materials)]

\* NodeString(*nodes, name=name)
node_string_init(nodes, name) ==
    IF Len(nodes) < 2 THEN [exc |-> "CardError", val |-> <<>>]
    ELSE [exc |-> "none", val |-> NodeString(nodes, name)]

\* Decimal places Node.to_line and Element.to_line print by default.
NodeDecimals == 6

MatidDecimals == 3

Pow10(n) == IF n = 0 THEN 1 ELSE IF n = 1 THEN 10 ELSE IF n = 2 THEN 100
            ELSE IF n = 3 THEN 1000 ELSE 10000

\* _format_float for a value of magnitude in [1, 10) or 0, given in units
\* of 1e-4: the mantissa is rounded to `decimals` places (to nearest; the
\* model feeds no ties).
format_float(v, decimals) ==
    IF decimals >= 4 THEN FloatTok(v < 0, Abs(v))
    ELSE LET unit == Pow10(4 - decimals)
             rounded == ((Abs(v) + unit \div 2) \div unit) * unit
         IN  FloatTok(v < 0, rounded)

\* float(token)
FloatOf(tok) == IF tok.neg THEN -tok.v ELSE tok.v

\* _format_matid
format_matid(m, decimals) ==
    IF m.isint THEN StrInt(m.v) ELSE format_float(m.v, decimals)

\* Node.to_line()
node_to_line(n) ==
    <<Word(n.card), StrInt(n.id), format_float(n.x, NodeDecimals),
      format_float(n.y, NodeDecimals), format_float(n.z, NodeDecimals)>>

\* Element.to_line()
element_to_line(e) ==
    <<Word(e.card), StrInt(e.id)>>
    \o [i \in 1..Len(e.nodes) |-> StrInt(e.nodes[i])]
    \o [i \in 1..Len(e.materials) |-> format_matid(e.materials[i], MatidDecimals)]

\* Default of the fold_after keyword of NodeString.to_line.
FoldAfter == 10

\* The words of the nodes from position index (0-based) on.
RECURSIVE ns_words(_, _, _)
ns_words(nodes, index, fold) ==
    IF index >= Len(nodes) THEN <<>>
    ELSE (IF index # 0 /\ index % fold = 0 /\ Len(nodes) > index
          THEN <<NewLine, Word("NS")>> ELSE <<>>)
         \o <<StrInt(nodes[index + 1])>>
         \o ns_words(nodes, index + 1, fold)

\* f'-{word}' for the text of an integer.
FlipSign(tok) == IF tok.neg THEN Word("--") ELSE [tok EXCEPT !.neg = TRUE]

\* NodeString.to_line(fold_after=fold)
node_string_to_line(ns, fold) ==
    LET list_ == <<Word("NS")>>
                 \o (IF fold > 0 THEN ns_words(ns.nodes, 0, fold)
                     ELSE [i \in 1..Len(ns.nodes) |-> StrInt(ns.nodes[i])])
        flipped == [list_ EXCEPT ![Len(list_)] = FlipSign(@)]
    IN  IF ns.name # <<>> THEN Append(flipped, Word(ns.name[1])) ELSE flipped

\* The words an entity is written with by the flush_* methods.
to_line(e) ==
    CASE e.card = "ND" -> node_to_line(e)
      [] e.card = "NS" -> node_string_to_line(e, FoldAfter)
      [] OTHER -> element_to_line(e)

(***************************************************************************)
(* The Writer (src/py2dm/_write.py).  Its methods are functions from the   *)
(* writer's state w to an outcome [w, exc, ret, warned]: the state the     *)
(* call leaves, the exception it raises ("none" if it returns), the value  *)
(* it returns and whether it emitted a Py2DMWarning.                       *)
(***************************************************************************)
Kinds == {"node", "element", "node string"}

NoRet == -99

Ok(w) == [w |-> w, exc |-> "none", ret |-> NoRet, warned |-> FALSE]

Return(w, ret, warned) == [w |-> w, exc |-> "none", ret |-> ret, warned |-> warned]

Raise(w, exc, warned) == [w |-> w, exc |-> exc, ret |-> NoRet, warned |-> warned]

\* Writer.__init__.  file and pos stand for the file at _filepath and the
\* handle _file: the first pos lines of file are the text written through
\* the handle that was opened last, the lines after them are the text an
\* abandoned handle left in the file (see open).  Both texts start at the
\* first character of the file: on disk the text of the first pos lines
\* lies over the text of the other lines, which shows only as far as it is
\* the longer one.  Besides the fields of the class the record keeps what
\* the calls did, for the properties to refer to: written (every line ever
\* written), materials_kw (the materials keyword), flushed (the kinds a
\* flush_* call has flushed) and after (the pairs <<K, L>> such that L was
\* flushed after K had been).
writer_init(materials, allow_float_matid, zero_index) ==
    [closed |-> TRUE,
     num_materials |-> materials,
     float_materials |-> allow_float_matid,
     zero_index |-> zero_index,
     count |-> [k \in Kinds |-> 0],
     cache |-> [k \in Kinds |-> <<>>],
     write_history |-> <<>>,
     file |-> <<>>,
     pos |-> 0,
     written |-> <<>>,
     materials_kw |-> materials,
     flushed |-> {},
     after |-> {}]

\* The text written through the handle _file.
handle_text(w) == SubSeq(w.file, 1, w.pos)

\* The text in the file that was not written through the handle _file.
left_text(w) == SubSeq(w.file, w.pos + 1, Len(w.file))

\* self._file.write / writelines: the lines go where the handle stands,
\* after the text written through it so far; written is every line the
\* writer ever wrote.
file_write(w, lines) ==
    [w EXCEPT !.file = handle_text(w) \o lines \o left_text(w),
              !.pos = @ + Len(lines),
              !.written = @ \o lines]

\* A _check_flush_state that looks only at the block before the last one.
check_flush_state_previous(w, type_) ==
    /\ Len(w.write_history) > 1
    /\ Last(w.write_history) # type_
    /\ w.write_history[Len(w.write_history) - 1] = type_

\* Writer._check_flush_state: TRUE iff it raises WriteError.
check_flush_state_raises(w, type_) ==
    /\ w.write_history # <<>>
    /\ Last(w.write_history) # type_
    /\ type_ \in Range(w.write_history)

\* Writer._update_flush_state
update_flush_state(w, type_) ==
    IF w.write_history = <<>> \/ Last(w.write_history) # type_
    THEN [w EXCEPT !.write_history = Append(@, type_)]
    ELSE w

\* The two lines write_header() writes when it is given no signature.
header_lines(nm) ==
    <<Line(FALSE, <<Word("MESH2D")>>),
      Line(FALSE, <<Word("NUM_MATERIALS_PER_ELEM"), StrInt(nm)>>)>>

\* A write_header that does not look at the write history.
write_header_unchecked(w) ==
    IF w.closed THEN Raise(w, "FileIsClosedError", FALSE)
    ELSE LET nm == IF w.num_materials < 0 THEN 0 ELSE w.num_materials
             w1 == file_write([w EXCEPT !.num_materials = nm], header_lines(nm))
         IN  Ok([w1 EXCEPT !.write_history = Append(@, "header")])

\* Writer.write_header() without a signature.
write_header(w) ==
    IF w.closed THEN Raise(w, "FileIsClosedError", FALSE)
    ELSE IF w.write_history # <<>> THEN Raise(w, "WriteError", FALSE)
    ELSE LET nm == IF w.num_materials < 0 THEN 0 ELSE w.num_materials
             w1 == file_write([w EXCEPT !.num_materials = nm], header_lines(nm))
         IN  Ok([w1 EXCEPT !.write_history = Append(@, "header")])

\* The lines writelines() gets for the cached entities of one kind.
cache_lines(w, type_) ==
    Flatten([i \in 1..Len(w.cache[type_]) |-> JoinWords(to_line(w.cache[type_][i]))])

\* The ghost fields after a flush of type_.
note_flush(w, type_) ==
    [w EXCEPT !.after = @ \cup {<<k, type_>> : k \in w.flushed \ {type_}},
              !.flushed = @ \cup {type_}]

\* A flush body that does not call _check_flush_state.
flush_body_unchecked(w, type_) ==
    LET w1 == file_write(w, cache_lines(w, type_))
        w2 == update_flush_state(w1, type_)
    IN  Ok(note_flush([w2 EXCEPT !.cache[type_] = <<>>], type_))

\* A flush body that empties every buffer.
flush_body_all(w, type_) ==
    IF check_flush_state_raises(w, type_) THEN Raise(w, "WriteError", FALSE)
    ELSE LET w1 == file_write(w, cache_lines(w, type_))
             w2 == update_flush_state(w1, type_)
         IN  Ok(note_flush([w2 EXCEPT !.cache = [k \in Kinds |-> <<>>]], type_))

\* The common body of flush_nodes, flush_elements and flush_node_strings
\* after the open and header checks.
flush_body(w, type_) ==
    IF check_flush_state_raises(w, type_) THEN Raise(w, "WriteError", FALSE)
    ELSE LET w1 == file_write(w, cache_lines(w, type_))
             w2 == update_flush_state(w1, type_)
         IN  Ok(note_flush([w2 EXCEPT !.cache[type_] = <<>>], type_))

\* A flush that does not call _require_open.
flush_any(w, type_) ==
    LET h == IF "header" \notin Range(w.write_history)
             THEN write_header_unchecked(w) ELSE Ok(w)
    IN  IF h.exc # "none" THEN h ELSE flush_body(h.w, type_)

\* flush_nodes, flush_elements, flush_node_strings: _require_open, the
\* header if the write history lacks it, then the body.
flush(w, type_) ==
    IF w.closed THEN Raise(w, "FileIsClosedError", FALSE)
    ELSE LET h == IF "header" \notin Range(w.write_history)
                  THEN write_header(w) ELSE Ok(w)
         IN  IF h.exc # "none" THEN h ELSE flush_body(h.w, type_)

\* Writer.flush_nodes
flush_nodes(w) == flush(w, "node")

\* Writer.flush_elements
flush_elements(w) == flush(w, "element")

\* Writer.flush_node_strings
flush_node_strings(w) == flush(w, "node string")

\* Writer.num_nodes
writer_num_nodes(w) ==
    IF w.closed THEN Raise(w, "FileIsClosedError", FALSE)
    ELSE Return(w, w.count["node"], FALSE)

\* Writer.num_elements
writer_num_elements(w) ==
    IF w.closed THEN Raise(w, "FileIsClosedError", FALSE)
    ELSE Return(w, w.count["element"], FALSE)

\* Writer.num_node_strings
writer_num_node_strings(w) ==
    IF w.closed THEN Raise(w, "FileIsClosedError", FALSE)
    ELSE Return(w, w.count["node string"], FALSE)

\* Writer.materials_per_element
materials_per_element(w) ==
    IF w.closed THEN Raise(w, "FileIsClosedError", FALSE)
    ELSE Return(w, w.num_materials, FALSE)

\* Writer.open: open(self._filepath, 'w') empties the file and _file is
\* bound to the new handle.  On a writer that is open the old handle is not
\* closed: it is finalized when the assignment drops the last reference to
\* it, after the file was emptied, and its buffer - everything written
\* through it, for texts shorter than the buffer - goes to the start of the
\* file.
open(w) ==
    Ok([w EXCEPT !.closed = FALSE,
                 !.file = IF w.closed THEN <<>> ELSE handle_text(w),
                 !.pos = 0])

\* close(): the header is written if the write history lacks it.  Each
\* step of close() takes the outcome so far and does nothing after a raise.
close_header(w) ==
    IF "header" \notin Range(w.write_history)
    THEN IF w.write_history # <<>> THEN Raise(w, "RuntimeError", FALSE)
         ELSE LET h == write_header(w)
              IN  IF h.exc # "none" THEN h
                  ELSE Ok([h.w EXCEPT !.write_history = Append(@, "header")])
    ELSE Ok(w)

\* close(): the kind flushed last is flushed first.
close_last(r) ==
    IF r.exc # "none" THEN r
    ELSE CASE Last(r.w.write_history) = "node string" -> flush_node_strings(r.w)
           [] Last(r.w.write_history) = "node" -> flush_nodes(r.w)
           [] Last(r.w.write_history) = "element" -> flush_elements(r.w)
           [] OTHER -> r

\* close(): a buffer that is not empty is flushed.
close_flush(r, type_) ==
    IF r.exc # "none" THEN r
    ELSE IF r.w.cache[type_] # <<>> THEN flush(r.w, type_) ELSE r

\* close(): the file is closed.
close_file(r) ==
    IF r.exc # "none" THEN r ELSE Ok([r.w EXCEPT !.closed = TRUE])

\* Writer.close
close(w) ==
    IF w.closed THEN Ok(w)
    ELSE close_file(
             close_flush(
                 close_flush(
                     close_flush(close_last(close_header(w)), "node"),
                     "element"),
                 "node string"))

\* An auto ID taken from the length of the buffer.
auto_id_buffered(w, type_) ==
    Len(w.cache[type_]) - (IF w.zero_index THEN 1 ELSE 0) + 1

\* The ID node() and element() give to an entity inserted with a negative ID.
auto_id(w, type_) == w.count[type_] - (IF w.zero_index THEN 1 ELSE 0) + 1

\* Writer.node; extra: the call passes a Node and further arguments.
node(w, n, extra) ==
    IF w.closed THEN Raise(w, "FileIsClosedError", FALSE)
    ELSE IF check_flush_state_raises(w, "node") THEN Raise(w, "WriteError", FALSE)
    ELSE IF extra THEN Raise(w, "TypeError", FALSE)
    ELSE LET n1 == IF n.id < 0 THEN [n EXCEPT !.id = auto_id(w, "node")] ELSE n
         IN  Return([w EXCEPT !.cache["node"] = Append(@, n1),
                              !.count["node"] = @ + 1], n1.id, FALSE)

\* An inference that initialises the material count to zero.
infer_materials_zero(w, e) ==
    IF w.num_materials < 0 THEN [w EXCEPT !.num_materials = 0] ELSE w

\* An inference that takes the material count from every element.
infer_materials_always(w, e) == [w EXCEPT !.num_materials = num_materials_of(e)]

\* element(): an unset material count is taken from the element.
infer_materials(w, e) ==
    IF w.num_materials < 0
    THEN [w EXCEPT !.num_materials = num_materials_of(e)]
    ELSE w

\* A truncation whose slice is one too long.
truncate_materials_long(e, n) == [e EXCEPT !.materials = Take(@, n + 1)]

\* element(): element.materials = element.materials[:n]
truncate_materials(e, n) == [e EXCEPT !.materials = Take(@, n)]

\* Writer.element; extra: the call passes an Element and further arguments.
element(w, e, extra) ==
    IF w.closed THEN Raise(w, "FileIsClosedError", FALSE)
    ELSE IF check_flush_state_raises(w, "element") THEN Raise(w, "WriteError", FALSE)
    ELSE IF extra THEN Raise(w, "TypeError", FALSE)
    ELSE LET e1 == IF e.id < 0 THEN [e EXCEPT !.id = auto_id(w, "element")] ELSE e
         IN  IF w.num_materials >= 0 /\ num_materials_of(e1) < w.num_materials
             THEN Raise(w, "ValueError", FALSE)
             ELSE LET w1 == infer_materials(w, e1)
                      warned == num_materials_of(e1) > w1.num_materials
                      e2 == IF warned
                            THEN truncate_materials(e1, w1.num_materials)
                            ELSE e1
                  IN  IF ~w1.float_materials
                         /\ \E i \in 1..Len(e2.materials) : ~e2.materials[i].isint
                      THEN Raise(w1, "ValueError", warned)
                      ELSE Return([w1 EXCEPT !.cache["element"] = Append(@, e2),
                                             !.count["element"] = @ + 1],
                                  e2.id, warned)

\* Writer.node_string; extra: the call passes a NodeString and further
\* arguments.
node_string(w, ns, extra) ==
    IF w.closed THEN Raise(w, "FileIsClosedError", FALSE)
    ELSE IF check_flush_state_raises(w, "node string") THEN Raise(w, "WriteError", FALSE)
    ELSE IF extra THEN Raise(w, "TypeError", FALSE)
    ELSE LET w1 == [w EXCEPT !.cache["node string"] = Append(@, ns),
                             !.count["node string"] = @ + 1]
         IN  Return(w1, w1.count["node string"], FALSE)

(***************************************************************************)
(* The Writer and the objects of its caller.  Objects live in a heap, a    *)
(* sequence whose indices are the addresses; the buffers of the Writer     *)
(* hold addresses.  A state st is [writer, heap, refs]: the writer, whose  *)
(* cache holds the values of the buffered objects, the heap, and per kind  *)
(* the addresses of the buffered objects.                                  *)
(***************************************************************************)
\* The kind under which the Writer buffers an entity.
kind_of(e) ==
    CASE e.card = "ND" -> "node"
      [] e.card = "NS" -> "node string"
      [] OTHER -> "element"

\* A copy that hands back the object it is given.
deepcopy_same(h, a) == [heap |-> h, addr |-> a]

\* copy.deepcopy(entity): a new object with the value of the object at
\* address a.
deepcopy(h, a) == [heap |-> Append(h, h[a]), addr |-> Len(h) + 1]

\* node(), element() or node_string() called with the instance e.
insert_call(w, e, extra) ==
    CASE e.card = "ND" -> node(w, e, extra)
      [] e.card = "NS" -> node_string(w, e, extra)
      [] OTHER -> element(w, e, extra)

\* The value node(), element() and node_string() leave in the object they
\* work on: a negative ID is replaced, excess materials are cut off.
assigned(w, e) ==
    CASE e.card = "ND" ->
             IF e.id < 0 THEN [e EXCEPT !.id = auto_id(w, "node")] ELSE e
      [] e.card = "NS" -> e
      [] OTHER ->
             LET e1 == IF e.id < 0 THEN [e EXCEPT !.id = auto_id(w, "element")]
                       ELSE e
                 w1 == infer_materials(w, e1)
             IN  IF num_materials_of(e1) > w1.num_materials
                 THEN truncate_materials(e1, w1.num_materials)
                 ELSE e1

\* The values of the objects at the addresses.
deref(h, addrs) == [i \in 1..Len(addrs) |-> h[addrs[i]]]

\* node(instance), element(instance) or node_string(instance) for the
\* instance at address a: the method raises for a closed writer or a closed
\* block, else copies the instance, raises for extra arguments, assigns to
\* the copy and appends it to the buffer unless it raises.
insert_instance(st, a, extra) ==
    LET e == st.heap[a]
        r == insert_call(st.writer, e, extra)
    IN  IF st.writer.closed \/ check_flush_state_raises(st.writer, kind_of(e))
        THEN [st EXCEPT !.writer = r.w]
        ELSE LET c == deepcopy(st.heap, a)
                 h == IF extra THEN c.heap
                      ELSE [c.heap EXCEPT ![c.addr] = assigned(st.writer, e)]
                 refs1 == IF r.exc = "none"
                          THEN [st.refs EXCEPT ![kind_of(e)] = Append(@, c.addr)]
                          ELSE st.refs
             IN  [writer |-> [r.w EXCEPT !.cache =
                                  [K \in Kinds |-> deref(h, refs1[K])]],
                  heap |-> h,
                  refs |-> refs1]

\* The caller assigns to the attributes of its instance at address a, which
\* then has the value v.
caller_assign(st, a, v) ==
    LET h == [st.heap EXCEPT ![a] = v]
    IN  [writer |-> [st.writer EXCEPT !.cache =
                         [K \in Kinds |-> deref(h, st.refs[K])]],
         heap |-> h,
         refs |-> st.refs]

\* flush_nodes(), flush_elements() or flush_node_strings(): a flush that
\* returns has cleared its buffer.
flush_refs(st, type_) ==
    LET r == flush(st.writer, type_)
    IN  [writer |-> r.w,
         heap |-> st.heap,
         refs |-> IF r.exc = "none" THEN [st.refs EXCEPT ![type_] = <<>>]
                  ELSE st.refs]

(***************************************************************************)
(* The card grammar (src/py2dm/_parser.py) and the entities' from_line     *)
(* (src/py2dm/_entities.py).  A parser is a function from a line to an     *)
(* outcome [exc, val]: the exception it raises ("none" if it returns) and  *)
(* the value it returns.  Comments ('#') do not occur in the model's       *)
(* lines; line.split() is the line's tokens.                               *)
(***************************************************************************)
Parsed(val) == [exc |-> "none", val |-> val]

Fail(exc) == [exc |-> exc, val |-> <<>>]

\* int(token) raises ValueError unless the token is an integer literal.
IsInt(tok) == tok.t = "i"

\* float(token) raises ValueError for a word.
IsNumber(tok) == tok.t \in {"i", "f"}

\* float(token) in units of 1e-4.
FloatValue(tok) == IF tok.t = "i" THEN IntOf(tok) * 10000 ELSE FloatOf(tok)

\* The text of a token taken as a name (names of the model's lines are
\* words or integer literals).
TokText(tok) ==
    IF tok.t = "w" THEN tok.s
    ELSE IF tok.neg THEN "-" \o ToString(tok.v) ELSE ToString(tok.v)

\* name.strip('"') for the names of the model's lines.
strip_quotes(name) ==
    CASE name = "\"\"" -> ""
      [] name = "\"a\"" -> "a"
      [] OTHER -> name

\* parse_node: val is <<id, x, y, z>>.
parse_node(line, zero_index) ==
    LET chunks == line.toks
    IN  IF Len(chunks) < 5 THEN Fail("CardError")
        ELSE IF chunks[1] # Word("ND") THEN Fail("CardError")
        ELSE IF ~IsInt(chunks[2]) THEN Fail("ValueError")
        ELSE IF IntOf(chunks[2]) <= 0 /\ ~(IntOf(chunks[2]) = 0 /\ zero_index)
        THEN Fail("FormatError")
        ELSE IF \E i \in 3..5 : ~IsNumber(chunks[i]) THEN Fail("ValueError")
        ELSE Parsed(<<IntOf(chunks[2]), FloatValue(chunks[3]),
                      FloatValue(chunks[4]), FloatValue(chunks[5])>>)

\* Node.from_line
node_from_line(line, zero_index) ==
    LET p == parse_node(line, zero_index)
    IN  IF p.exc # "none" THEN p
        ELSE Parsed(Node(p.val[1], p.val[2], p.val[3], p.val[4]))

\* _card_is_element
card_is_element(tok) == tok.t = "w" /\ tok.s \in ELEMENT_CARDS

\* parse_element: the material of one field, <<>> if the field raises.
parse_material(tok, allow_float_matid) ==
    IF IsInt(tok) THEN <<IntMat(IntOf(tok))>>
    ELSE IF allow_float_matid /\ tok.t = "f" THEN <<FloatMat(FloatOf(tok))>>
    ELSE <<>>

\* parse_element: val is <<id, nodes, materials>>.
parse_element(line, allow_float_matid, zero_index) ==
    LET chunks == line.toks
    IN  IF Len(chunks) < 4 THEN Fail("CardError")
        ELSE IF ~card_is_element(chunks[1]) THEN Fail("CardError")
        ELSE LET num_nodes == nodes_per_element(chunks[1].s)
                 bad == {i \in 3..(num_nodes + 2) :
                             ~IsInt(chunks[i]) \/ IntOf(chunks[i]) < 0}
                 first_bad == CHOOSE i \in bad : \A j \in bad : i <= j
                 mats == [i \in 1..(Len(chunks) - num_nodes - 2) |->
                              parse_material(chunks[num_nodes + 2 + i],
                                             allow_float_matid)]
             IN  IF Len(chunks) < num_nodes + 2 THEN Fail("CardError")
                 ELSE IF ~IsInt(chunks[2]) THEN Fail("ValueError")
                 ELSE IF IntOf(chunks[2]) <= 0
                         /\ ~(IntOf(chunks[2]) = 0 /\ zero_index)
                 THEN Fail("FormatError")
                 ELSE IF bad # {}
                 THEN IF ~IsInt(chunks[first_bad]) THEN Fail("ValueError")
                      ELSE Fail("FormatError")
                 ELSE IF \E i \in 1..Len(mats) : mats[i] = <<>>
                 THEN Fail("ValueError")
                 ELSE Parsed(<<IntOf(chunks[2]),
                               [i \in 1..num_nodes |-> IntOf(chunks[i + 2])],
                               Flatten(mats)>>)

\* element_factory: val is the card of the subclass the line starts with;
\* a line that is blank or holds only a comment raises ValueError, any other
\* line NotImplementedError.
element_factory(line) ==
    IF ~line.lead /\ line.toks # <<>> /\ card_is_element(line.toks[1])
    THEN Parsed(line.toks[1].s)
    ELSE IF line.toks = <<>> \/ line.toks[1] = Word("#")
    THEN Fail("ValueError")
    ELSE Fail("NotImplementedError")

\* cls.from_line of the Element subclass with the given card: a line that
\* does not start with the card raises CardError with the line's first word,
\* and a blank line has none.
element_from_line(card, line, allow_float_matid, zero_index) ==
    IF line.toks = <<>> THEN Fail("IndexError")
    ELSE IF line.lead \/ line.toks[1] # Word(card) THEN Fail("CardError")
    ELSE LET p == parse_element(line, TRUE, zero_index)
         IN  IF p.exc # "none" THEN p
             ELSE LET kept == {i \in 1..Len(p.val[3]) :
                                   allow_float_matid \/ p.val[3][i].isint}
                      materials == Flatten([i \in 1..Len(p.val[3]) |->
                                       IF i \in kept THEN <<p.val[3][i]>>
                                       ELSE <<>>])
                  IN  Parsed(Element(card, p.val[1], p.val[2], materials))

\* parse_node_string: the fields from position i on; s is
\* [nodes, is_done, name, exc].
RECURSIVE parse_node_string_from(_, _, _, _)
parse_node_string_from(chunks, i, s, zero_index) ==
    IF i > Len(chunks) THEN s
    ELSE IF ~IsInt(chunks[i]) THEN [s EXCEPT !.exc = "ValueError"]
    ELSE LET node_id == IntOf(chunks[i])
         IN  IF node_id = 0 /\ ~zero_index THEN [s EXCEPT !.exc = "FormatError"]
             ELSE IF node_id < 0
             THEN [s EXCEPT !.is_done = TRUE,
                            !.nodes = Append(@, Abs(node_id)),
                            !.name = IF i + 1 <= Len(chunks)
                                     THEN TokText(chunks[i + 1]) ELSE ""]
             ELSE parse_node_string_from(
                      chunks, i + 1, [s EXCEPT !.nodes = Append(@, node_id)],
                      zero_index)

\* A parse_node_string that reports every line as the last one.
parse_node_string_done(line, zero_index, nodes) ==
    LET chunks == line.toks
    IN  IF Len(chunks) < 2 THEN Fail("CardError")
        ELSE IF chunks[1] # Word("NS") THEN Fail("CardError")
        ELSE LET s == parse_node_string_from(
                          chunks, 2,
                          [nodes |-> nodes, is_done |-> FALSE, name |-> "",
                           exc |-> "none"],
                          zero_index)
             IN  IF s.exc # "none" THEN Fail(s.exc)
                 ELSE Parsed(<<s.nodes, TRUE, s.name>>)

\* parse_node_string: val is <<nodes, is_done, name>>.
parse_node_string(line, zero_index, nodes) ==
    LET chunks == line.toks
    IN  IF Len(chunks) < 2 THEN Fail("CardError")
        ELSE IF chunks[1] # Word("NS") THEN Fail("CardError")
        ELSE LET s == parse_node_string_from(
                          chunks, 2,
                          [nodes |-> nodes, is_done |-> FALSE, name |-> "",
                           exc |-> "none"],
                          zero_index)
             IN  IF s.exc # "none" THEN Fail(s.exc)
                 ELSE Parsed(<<s.nodes, s.is_done, s.name>>)

\* A from_line that starts from an empty node list whatever it is given.
node_string_from_line_fresh(line, previous, zero_index) ==
    LET p == parse_node_string(line, zero_index, <<>>)
    IN  IF p.exc # "none" THEN p
        ELSE IF previous = <<>> /\ Len(p.val[1]) < 2 THEN Fail("CardError")
        ELSE LET ns == IF previous = <<>> THEN NodeString(p.val[1], <<>>)
                       ELSE [previous[1] EXCEPT !.nodes = p.val[1]]
             IN  Parsed(<<IF p.val[3] # ""
                          THEN [ns EXCEPT !.name = <<strip_quotes(p.val[3])>>]
                          ELSE ns,
                          p.val[2]>>)

\* NodeString.from_line; previous is <<>> for no node string to extend, else
\* <<the node string>>; val is <<node string, is_done>>.
node_string_from_line(line, previous, zero_index) ==
    LET p == parse_node_string(
                 line, zero_index,
                 IF previous = <<>> THEN <<>> ELSE previous[1].nodes)
    IN  IF p.exc # "none" THEN p
        ELSE IF previous = <<>> /\ Len(p.val[1]) < 2 THEN Fail("CardError")
        ELSE LET ns == IF previous = <<>> THEN NodeString(p.val[1], <<>>)
                       ELSE [previous[1] EXCEPT !.nodes = p.val[1]]
             IN  Parsed(<<IF p.val[3] # ""
                          THEN [ns EXCEPT !.name = <<strip_quotes(p.val[3])>>]
                          ELSE ns,
                          p.val[2]>>)

(***************************************************************************)
(* The entity loader (src/py2dm/utils.py): the reading path that turns the *)
(* lines of a file into nodes, elements and node strings.                  *)
(***************************************************************************)
\* line.startswith('E'): the words of the model that start with E are the
\* element cards.
StartsWithE(line) ==
    ~line.lead /\ line.toks # <<>> /\ card_is_element(line.toks[1])

\* _process_entities: one pass of the loop; s is
\* [nodes, elements, node_strings, ns_previous, exc].
process_line(s, line) ==
    IF StartsWithCard(line, "ND")
    THEN LET p == node_from_line(line, FALSE)
         IN  IF p.exc # "none" THEN [s EXCEPT !.exc = p.exc]
             ELSE [s EXCEPT !.nodes = Append(@, p.val)]
    ELSE IF StartsWithCard(line, "NS")
    THEN LET p == node_string_from_line(line, s.ns_previous, FALSE)
         IN  IF p.exc # "none" THEN [s EXCEPT !.exc = p.exc]
             ELSE IF p.val[2]
             THEN [s EXCEPT !.node_strings = Append(@, p.val[1]),
                            !.ns_previous = <<>>]
             ELSE [s EXCEPT !.ns_previous = <<p.val[1]>>]
    ELSE IF StartsWithE(line)
    THEN IF element_factory(line).exc = "NotImplementedError" THEN s
         ELSE IF element_factory(line).exc # "none"
         THEN [s EXCEPT !.exc = element_factory(line).exc]
         ELSE LET p == element_from_line(element_factory(line).val, line,
                                         TRUE, FALSE)
              IN  IF p.exc # "none" THEN [s EXCEPT !.exc = p.exc]
                  ELSE [s EXCEPT !.elements = Append(@, p.val)]
    ELSE s

RECURSIVE process_lines(_, _, _)
process_lines(s, lines, i) ==
    IF i > Len(lines) \/ s.exc # "none" THEN s
    ELSE process_lines(process_line(s, lines[i]), lines, i + 1)

\* _process_entities
process_entities(lines) ==
    LET s == process_lines([nodes |-> <<>>, elements |-> <<>>,
                            node_strings |-> <<>>, ns_previous |-> <<>>,
                            exc |-> "none"], lines, 1)
    IN  [exc |-> s.exc,
         nodes |-> IF s.exc = "none" THEN s.nodes ELSE <<>>,
         elements |-> IF s.exc = "none" THEN s.elements ELSE <<>>,
         node_strings |-> IF s.exc = "none" THEN s.node_strings ELSE <<>>]

(***************************************************************************)
(* merge_meshes (src/py2dm/utils.py).  The loops of merge_meshes run on a  *)
(* state s = [w, map, exc]: the Writer of the output, mesh2_node_map as a  *)
(* function from the node IDs of the second mesh to IDs of the output, and *)
(* the exception raised so far ("none" if none); a loop does nothing once  *)
(* an exception is raised.                                                 *)
(***************************************************************************)
\* mesh1_node_map.get((x, y)): <<>>, or <<the ID>> of the last node of the
\* first mesh at (x, y).
mesh1_node_id(nodes, x, y) ==
    LET hits == {i \in 1..Len(nodes) : nodes[i].x = x /\ nodes[i].y = y}
    IN  IF hits = {} THEN <<>>
        ELSE <<nodes[CHOOSE i \in hits : \A j \in hits : j <= i].id>>

\* mesh2_node_map after the deduplication loop: the nodes of the second
\* mesh that lie at the (x, y) of a node of the first mesh get its ID.
shared_node_map(nodes, new_nodes) ==
    LET hits == {i \in 1..Len(new_nodes) :
                     mesh1_node_id(nodes, new_nodes[i].x, new_nodes[i].y) # <<>>}
        last(id) == CHOOSE i \in hits :
                        /\ new_nodes[i].id = id
                        /\ \A j \in hits : new_nodes[j].id = id => j <= i
    IN  [id \in {new_nodes[i].id : i \in hits} |->
             mesh1_node_id(nodes, new_nodes[last(id)].x,
                           new_nodes[last(id)].y)[1]]

\* The state after a call of the writer with the outcome r.
merge_called(s, r) == [s EXCEPT !.w = r.w, !.exc = r.exc]

\* for node in nodes: writer.node(node.id, node.x, node.y, node.z)
RECURSIVE merge_nodes(_, _, _)
merge_nodes(s, nodes, i) ==
    IF i > Len(nodes) \/ s.exc # "none" THEN s
    ELSE merge_nodes(
             merge_called(s, node(s.w, Node(nodes[i].id, nodes[i].x,
                                            nodes[i].y, nodes[i].z), FALSE)),
             nodes, i + 1)

\* mesh2_node_map[node.id] = writer.node(-1, node.x, node.y, node.z), the
\* call having the outcome r.
merge_mapped(s, id_, r) ==
    [w |-> r.w,
     map |-> IF r.exc = "none" THEN (id_ :> r.ret) @@ s.map ELSE s.map,
     exc |-> r.exc]

\* for node in new_nodes: a node that has no ID in the map is written with
\* an ID of the writer.
RECURSIVE merge_new_nodes(_, _, _)
merge_new_nodes(s, new_nodes, i) ==
    IF i > Len(new_nodes) \/ s.exc # "none" THEN s
    ELSE IF new_nodes[i].id \in DOMAIN s.map
    THEN merge_new_nodes(s, new_nodes, i + 1)
    ELSE merge_new_nodes(
             merge_mapped(s, new_nodes[i].id,
                          node(s.w, Node(-1, new_nodes[i].x, new_nodes[i].y,
                                         new_nodes[i].z), FALSE)),
             new_nodes, i + 1)

\* writer.flush_nodes(), flush_elements() or flush_node_strings()
merge_flush(s, type_) ==
    IF s.exc # "none" THEN s ELSE merge_called(s, flush(s.w, type_))

\* writer.element(card, id_, *nodes) for the outcome c of the constructor
\* of the element.
merge_constructed(s, c) ==
    IF c.exc # "none" THEN [s EXCEPT !.exc = c.exc]
    ELSE merge_called(s, element(s.w, c.val, FALSE))

\* writer.element(card, id_, *nodes): the element is constructed from the
\* arguments, without materials.
merge_element(s, card, id_, nodes) ==
    merge_constructed(s, element_init(card, id_, nodes, <<>>))

\* for element in elements: writer.element(element.card, element.id,
\* *element.nodes)
RECURSIVE merge_elements(_, _, _)
merge_elements(s, elements, i) ==
    IF i > Len(elements) \/ s.exc # "none" THEN s
    ELSE merge_elements(
             merge_element(s, elements[i].card, elements[i].id,
                           elements[i].nodes),
             elements, i + 1)

\* tuple(mesh2_node_map[n] for n in nodes): <<>> for a KeyError, else <<the
\* tuple>>.
mapped_nodes(map, nodes) ==
    IF \E i \in 1..Len(nodes) : nodes[i] \notin DOMAIN map THEN <<>>
    ELSE <<[i \in 1..Len(nodes) |-> map[nodes[i]]]>>

\* The element e of the second mesh, its node IDs mapped to nodes, is
\* written unless the first mesh has an element with the same set of nodes.
merge_new_element(s, elements, e, nodes) ==
    IF nodes = <<>> THEN [s EXCEPT !.exc = "KeyError"]
    ELSE IF \E j \in 1..Len(elements) :
                Range(elements[j].nodes) = Range(nodes[1])
    THEN s
    ELSE merge_element(s, e.card, -1, nodes[1])

\* for element in new_elements
RECURSIVE merge_new_elements(_, _, _, _)
merge_new_elements(s, elements, new_elements, i) ==
    IF i > Len(new_elements) \/ s.exc # "none" THEN s
    ELSE merge_new_elements(
             merge_new_element(s, elements, new_elements[i],
                               mapped_nodes(s.map, new_elements[i].nodes)),
             elements, new_elements, i + 1)

\* writer.node_string(*nodes, name=name) for the outcome c of the
\* constructor of the node string.
merge_constructed_string(s, c) ==
    IF c.exc # "none" THEN [s EXCEPT !.exc = c.exc]
    ELSE merge_called(s, node_string(s.w, c.val, FALSE))

\* writer.node_string(*nodes, name=name)
merge_node_string(s, nodes, name) ==
    merge_constructed_string(s, node_string_init(nodes, name))

\* for node_string in node_strings: writer.node_string(*node_string.nodes,
\* name=node_string.name)
RECURSIVE merge_node_strings(_, _, _)
merge_node_strings(s, node_strings, i) ==
    IF i > Len(node_strings) \/ s.exc # "none" THEN s
    ELSE merge_node_strings(
             merge_node_string(s, node_strings[i].nodes, node_strings[i].name),
             node_strings, i + 1)

\* A node string ns of the second mesh without a name, or with a name no
\* node string of the first mesh has, is written with its node IDs mapped
\* to nodes.
merge_new_node_string(s, node_strings, ns, nodes) ==
    IF ns.name # <<>>
       /\ \E j \in 1..Len(node_strings) : node_strings[j].name = ns.name
    THEN s
    ELSE IF nodes = <<>> THEN [s EXCEPT !.exc = "KeyError"]
    ELSE merge_node_string(s, nodes[1], ns.name)

\* for node_string in new_node_strings
RECURSIVE merge_new_node_strings(_, _, _, _)
merge_new_node_strings(s, node_strings, new_node_strings, i) ==
    IF i > Len(new_node_strings) \/ s.exc # "none" THEN s
    ELSE merge_new_node_strings(
             merge_new_node_string(
                 s, node_strings, new_node_strings[i],
                 mapped_nodes(s.map, new_node_strings[i].nodes)),
             node_strings, new_node_strings, i + 1)

\* The body of the with statement for the entities m1 and m2 of the two
\* meshes, from the state s.
merge_body(s, m1, m2) ==
    merge_flush(
        merge_new_node_strings(
            merge_node_strings(
                merge_flush(
                    merge_new_elements(
                        merge_elements(
                            merge_flush(
                                merge_new_nodes(
                                    merge_nodes(s, m1.nodes, 1),
                                    m2.nodes, 1),
                                "node"),
                            m1.elements, 1),
                        m1.elements, m2.elements, 1),
                    "element"),
                m1.node_strings, 1),
            m1.node_strings, m2.node_strings, 1),
        "node string")

\* The with statement closes the writer, the outcome of close() being c,
\* also when its body raised; an exception of close() replaces the one of
\* the body.
merge_exit(s, c) ==
    [exc |-> IF c.exc # "none" THEN c.exc ELSE s.exc, file |-> c.w.file]

\* with Writer(output) as writer: ... for the state s the body leaves.
merge_with(s) == merge_exit(s, close(s.w))

\* merge_meshes for the entities m1 and m2 loaded from the two files.
merge_loaded(m1, m2) ==
    IF m1.exc # "none" THEN [exc |-> m1.exc, file |-> <<>>]
    ELSE IF m2.exc # "none" THEN [exc |-> m2.exc, file |-> <<>>]
    ELSE merge_with(
             merge_body([w |-> open(writer_init(-1, TRUE, FALSE)).w,
                         map |-> shared_node_map(m1.nodes, m2.nodes),
                         exc |-> "none"],
                        m1, m2))

\* merge_meshes(mesh1, mesh2, output) for the lines of the two input files:
\* the exception raised ("none" if it returns) and the lines of the output
\* file, <<>> if the file is not created.
merge_meshes(lines1, lines2) ==
    merge_loaded(process_entities(lines1), process_entities(lines2))

(***************************************************************************)
(* The metadata scan (src/py2dm/_parser.py, scan_metadata).  The file      *)
(* offsets and the mesh name it also returns are left out; the exception   *)
(* that taking the name from the line can raise is kept.                   *)
(***************************************************************************)
\* line.startswith(word) for the stripped line: the model has no other
\* word that begins with one of the words looked for.
FirstWordIs(line, word) == line.toks # <<>> /\ line.toks[1] = Word(word)

\* '-' in line: a negative number or the word "--".
HasMinus(line) ==
    \E i \in 1..Len(line.toks) : line.toks[i].neg \/ line.toks[i] = Word("--")

\* line_raw.split('#', maxsplit=1)[0].strip(): a comment is the word "#"
\* and everything after it.
RECURSIVE before_comment(_)
before_comment(toks) ==
    IF toks = <<>> \/ Head(toks) = Word("#") THEN <<>>
    ELSE <<Head(toks)>> \o before_comment(Tail(toks))

strip_comment(line_raw) == Line(FALSE, before_comment(line_raw.toks))

\* The words of the model that hold a double quote.
HasQuote(line) ==
    \E i \in 1..Len(line.toks) : line.toks[i] \in {Word("\"\""), Word("\"a\"")}

\* chunks = line.split('"', maxsplit=2), or line.split(maxsplit=2) if the
\* line holds no double quote; name = chunks[1]: the exception it raises,
\* if any.
name_exc(line) ==
    IF ~HasQuote(line) /\ Len(line.toks) < 2 THEN "IndexError" ELSE "none"

\* The local variables of scan_metadata before the loop;
\* num_materials_per_elem is <<>> for None.
scan_start ==
    [num_nodes |-> 0, num_elements |-> 0, num_node_strings |-> 0,
     num_materials_per_elem |-> <<>>, mesh2d_found |-> FALSE,
     last_node |-> -1, last_element |-> -1, exc |-> "none"]

\* int(line.split(maxsplit=2)[1]): the exception it raises, if any.
second_field_exc(line) ==
    IF Len(line.toks) < 2 THEN "IndexError"
    ELSE IF ~IsInt(line.toks[2]) THEN "ValueError"
    ELSE "none"

\* The "holes" check of scan_metadata: last is the previous ID of the kind,
\* -1 before the first record.
has_hole(last, id_) == last # -1 /\ last + 1 # id_

\* One pass of the loop of scan_metadata.
scan_line(s, line_raw, zero_index) ==
    LET line == strip_comment(line_raw)
    IN
    IF IsBlank(line) THEN s
    ELSE IF ~s.mesh2d_found /\ ~FirstWordIs(line, "MESH2D")
    THEN [s EXCEPT !.exc = "ReadError"]
    ELSE LET s1 == [s EXCEPT !.mesh2d_found = TRUE]
             id_ == IntOf(line.toks[2])
         IN  IF FirstWordIs(line, "ND")
             THEN IF second_field_exc(line) # "none"
                  THEN [s1 EXCEPT !.exc = second_field_exc(line)]
                  ELSE IF id_ = 0 /\ ~zero_index
                  THEN [s1 EXCEPT !.exc = "FormatError"]
                  ELSE IF has_hole(s1.last_node, id_)
                  THEN [s1 EXCEPT !.exc = "FormatError"]
                  ELSE [s1 EXCEPT !.num_nodes = @ + 1, !.last_node = id_]
             ELSE IF card_is_element(line.toks[1])
             THEN IF second_field_exc(line) # "none"
                  THEN [s1 EXCEPT !.exc = second_field_exc(line)]
                  ELSE IF id_ = 0 /\ ~zero_index
                  THEN [s1 EXCEPT !.exc = "FormatError"]
                  ELSE IF has_hole(s1.last_element, id_)
                  THEN [s1 EXCEPT !.exc = "FormatError"]
                  ELSE [s1 EXCEPT !.num_elements = @ + 1, !.last_element = id_]
             ELSE IF FirstWordIs(line, "NS") /\ HasMinus(line)
             THEN IF second_field_exc(line) # "none"
                  THEN [s1 EXCEPT !.exc = second_field_exc(line)]
                  ELSE [s1 EXCEPT !.num_node_strings = @ + 1,
                                  !.num_materials_per_elem = <<id_>>]
             ELSE IF FirstWordIs(line, "MESHNAME") \/ FirstWordIs(line, "GM")
             THEN [s1 EXCEPT !.exc = name_exc(line)]
             ELSE IF FirstWordIs(line, "NUM_MATERIALS_PER_ELEM")
             THEN IF second_field_exc(line) # "none"
                  THEN [s1 EXCEPT !.exc = second_field_exc(line)]
                  ELSE [s1 EXCEPT !.num_materials_per_elem = <<id_>>]
             ELSE s1

RECURSIVE scan_lines(_, _, _, _)
scan_lines(s, lines, i, zero_index) ==
    IF i > Len(lines) \/ s.exc # "none" THEN s
    ELSE scan_lines(scan_line(s, lines[i], zero_index), lines, i + 1, zero_index)

\* A scan without the check made after the loop.
scan_metadata_unchecked(lines, zero_index) ==
    LET s == scan_lines(scan_start, lines, 1, zero_index)
    IN  IF s.exc # "none" THEN [exc |-> s.exc, ret |-> <<>>]
        ELSE [exc |-> "none",
              ret |-> <<[num_nodes |-> s.num_nodes,
                         num_elements |-> s.num_elements,
                         num_node_strings |-> s.num_node_strings,
                         num_materials_per_elem |-> s.num_materials_per_elem]>>]

\* scan_metadata: [exc, ret]; ret is <<>> if it raises, else a one-element
\* sequence with the counts returned.
scan_metadata(lines, zero_index) ==
    LET s == scan_lines(scan_start, lines, 1, zero_index)
    IN  IF s.exc # "none" THEN [exc |-> s.exc, ret |-> <<>>]
        ELSE IF ~s.mesh2d_found THEN [exc |-> "ReadError", ret |-> <<>>]
        ELSE [exc |-> "none",
              ret |-> <<[num_nodes |-> s.num_nodes,
                         num_elements |-> s.num_elements,
                         num_node_strings |-> s.num_node_strings,
                         num_materials_per_elem |-> s.num_materials_per_elem]>>]

(***************************************************************************)
(* The Reader (src/py2dm/_read.py).  A Reader is a record of the           *)
(* attributes the constructor sets; its methods are functions from the     *)
(* reader to an outcome [exc, val].  The mesh name and the number of       *)
(* materials per element are left out.                                     *)
(***************************************************************************)
\* line.startswith(word) for a line as it stands in the file: the model has
\* no other word that begins with one of the words looked for.
RawStartsWith(line, word) ==
    ~line.lead /\ line.toks # <<>> /\ line.toks[1] = Word(word)

\* The local variables of Reader._parse_metadata before the loop.
metadata_start ==
    [num_nodes |-> 0, num_elements |-> 0, num_node_strings |-> 0,
     mesh2d_found |-> FALSE, exc |-> "none"]

\* The branches of the loop of Reader._parse_metadata that follow the
\* MESH2D check.
metadata_card(s, line, zero_index) ==
    LET id_ == IntOf(line.toks[2])
    IN
    IF RawStartsWith(line, "NUM_MATERIALS_PER_ELEM")
    THEN [s EXCEPT !.exc = second_field_exc(strip_comment(line))]
    ELSE IF RawStartsWith(line, "MESHNAME") \/ RawStartsWith(line, "GM")
    THEN IF HasQuote(line) THEN s ELSE [s EXCEPT !.exc = "IndexError"]
    ELSE IF RawStartsWith(line, "ND")
    THEN IF second_field_exc(line) # "none"
         THEN [s EXCEPT !.exc = second_field_exc(line)]
         ELSE IF id_ = 0 /\ ~zero_index
         THEN [s EXCEPT !.exc = "FormatError"]
         ELSE [s EXCEPT !.num_nodes = @ + 1]
    ELSE IF RawStartsWith(line, "NS") /\ HasMinus(strip_comment(line))
    THEN [s EXCEPT !.num_node_strings = @ + 1]
    ELSE IF IsBlank(line)
    THEN [s EXCEPT !.exc = "IndexError"]
    ELSE IF card_is_element(line.toks[1])
    THEN IF second_field_exc(line) # "none"
         THEN [s EXCEPT !.exc = second_field_exc(line)]
         ELSE IF id_ = 0 /\ ~zero_index
         THEN [s EXCEPT !.exc = "FormatError"]
         ELSE [s EXCEPT !.num_elements = @ + 1]
    ELSE s

\* One pass of the loop of Reader._parse_metadata.
metadata_line(s, line, zero_index) ==
    IF ~s.mesh2d_found /\ ~IsBlank(strip_comment(line))
    THEN IF RawStartsWith(line, "MESH2D")
         THEN metadata_card([s EXCEPT !.mesh2d_found = TRUE], line, zero_index)
         ELSE [s EXCEPT !.exc = "ReadError"]
    ELSE metadata_card(s, line, zero_index)

RECURSIVE metadata_lines(_, _, _, _)
metadata_lines(s, lines, i, zero_index) ==
    IF i > Len(lines) \/ s.exc # "none" THEN s
    ELSE metadata_lines(metadata_line(s, lines[i], zero_index), lines,
                        i + 1, zero_index)

\* Reader._parse_metadata: the local variables at its end.
reader_parse_metadata(lines, zero_index) ==
    metadata_lines(metadata_start, lines, 1, zero_index)

\* Reader._filter_lines: the lines that start with one of the cards, each
\* as the words before its comment.
RECURSIVE filter_lines(_, _)
filter_lines(lines, cards) ==
    IF lines = <<>> THEN <<>>
    ELSE (IF \E c \in cards : RawStartsWith(Head(lines), c)
          THEN <<before_comment(Head(lines).toks)>> ELSE <<>>)
         \o filter_lines(Tail(lines), cards)

\* Node.parse_line, <Element>.parse_line and NodeString.parse_line as the
\* Reader calls them: the classes of _entities.py that _read.py imports
\* define from_line and no parse_line, so that looking the attribute up
\* raises AttributeError.
entity_parse_line(words) == Fail("AttributeError")

\* [parse_line(l) for l in lines]: the exception of the first line that
\* raises, or the list of the entities.
RECURSIVE load_entities(_)
load_entities(lines) ==
    IF lines = <<>> THEN Parsed(<<>>)
    ELSE LET first == entity_parse_line(Head(lines))
             rest == load_entities(Tail(lines))
         IN  IF first.exc # "none" THEN first
             ELSE IF rest.exc # "none" THEN rest
             ELSE Parsed(<<first.val>> \o rest.val)

\* The loop of the constructor over the lines that start with 'NS': the
\* node strings that are done.  parse_line is called for each such line.
load_node_strings(lines) == load_entities(filter_lines(lines, {"NS"}))

\* Reader.__init__: [exc, val], val the reader constructed.  A lazy reader
\* has no caches of nodes and elements.
reader_init(lines, lazy, zero_index) ==
    LET data == reader_parse_metadata(lines, zero_index)
        nodes == IF lazy THEN Parsed(<<>>)
                 ELSE load_entities(filter_lines(lines, {"ND"}))
        elements == IF lazy THEN Parsed(<<>>)
                    ELSE load_entities(filter_lines(lines, ELEMENT_CARDS))
        node_strings == load_node_strings(lines)
    IN  IF data.exc # "none" THEN Fail(data.exc)
        ELSE IF nodes.exc # "none" THEN Fail(nodes.exc)
        ELSE IF elements.exc # "none" THEN Fail(elements.exc)
        ELSE IF node_strings.exc # "none" THEN Fail(node_strings.exc)
        ELSE Parsed([lazy |-> lazy, zero_index |-> zero_index,
                     num_nodes |-> data.num_nodes,
                     num_elements |-> data.num_elements,
                     num_node_strings |-> data.num_node_strings,
                     cache_nodes |-> nodes.val,
                     cache_elements |-> elements.val,
                     cache_node_strings |-> node_strings.val])

\* Reader.close: its body is `_ = self`.
reader_close(rd) == rd

\* The properties Reader.num_nodes, Reader.num_elements and
\* Reader.num_node_strings.
reader_num_nodes(rd) == Parsed(rd.num_nodes)

reader_num_elements(rd) == Parsed(rd.num_elements)

reader_num_node_strings(rd) == Parsed(rd.num_node_strings)

\* The lookup shared by Reader.node and Reader.element: count is the number
\* of entities of the kind and cache the list of them.
lookup(rd, id_, count, cache) ==
    LET id_conf == IF rd.zero_index THEN id_ + 1 ELSE id_
    IN  IF ~(1 <= id_conf /\ id_conf <= count) THEN Fail("KeyError")
        ELSE IF rd.lazy THEN Fail("NotImplementedError")
        ELSE IF id_conf > Len(cache) THEN Fail("IndexError")
        ELSE Parsed(cache[id_conf])

\* Reader.node.
reader_node(rd, id_) == lookup(rd, id_, rd.num_nodes, rd.cache_nodes)

\* Reader.element.
reader_element(rd, id_) ==
    lookup(rd, id_, rd.num_elements, rd.cache_elements)

\* list[a:b] of Python: a negative index counts from the end, and both are
\* clamped to the list.
SliceIndex(n, i) ==
    IF i < 0 THEN (IF n + i < 0 THEN 0 ELSE n + i)
    ELSE IF i > n THEN n ELSE i

PySlice(s, a, b) ==
    SubSeq(s, SliceIndex(Len(s), a) + 1, SliceIndex(Len(s), b))

\* The defaults and the bounds check shared by Reader.iter_nodes and
\* Reader.iter_elements: [exc, val], val the bounds <<start, end>> to use.
iter_bounds(rd, start, end, count) ==
    LET id_min == IF rd.zero_index THEN 0 ELSE 1
        id_max == IF rd.zero_index THEN count + 1 ELSE count
        start1 == IF start < 0 THEN id_min ELSE start
        end1 == IF end < 0 THEN id_max ELSE end
    IN  IF start1 > id_max THEN Fail("IndexError")
        ELSE IF end1 <= start1 THEN Fail("IndexError")
        ELSE IF end1 > id_max THEN Fail("IndexError")
        ELSE IF rd.lazy THEN Fail("NotImplementedError")
        ELSE Parsed(<<start1, end1>>)

\* Reader.iter_nodes: val is <<the list of the nodes it iterates over>>.
reader_iter_nodes(rd, start, end) ==
    LET bounds == iter_bounds(rd, start, end, rd.num_nodes)
        offset == IF rd.zero_index THEN 1 ELSE 0
    IN  IF rd.num_nodes < 1 THEN Parsed(<<<<>>>>)
        ELSE IF bounds.exc # "none" THEN bounds
        ELSE Parsed(<<PySlice(rd.cache_nodes, bounds.val[1] - offset,
                              bounds.val[2] - offset)>>)

\* Reader.iter_elements: val is <<the list it iterates over>>, or <<>> when
\* it returns None: its loop over the elements yields nothing.
reader_iter_elements(rd, start, end) ==
    LET bounds == iter_bounds(rd, start, end, rd.num_elements)
        offset == IF rd.zero_index THEN 1 ELSE 0
        slice == PySlice(rd.cache_elements, bounds.val[1] - offset,
                         bounds.val[2] - offset)
    IN  IF rd.num_elements < 1 THEN Parsed(<<<<>>>>)
        ELSE IF bounds.exc # "none" THEN bounds
        ELSE IF slice # <<>> /\ slice[1].id # offset
        THEN Fail("FormatError")
        ELSE Parsed(<<>>)

(***************************************************************************)
(* State.  Several state machines share the module: the Writer driven by   *)
(* arbitrary calls (Spec), the metadata scan applied to a file (SpecScan), *)
(* the round trip of a mesh through the Writer and the entity loader       *)
(* (SpecTrip), the card parsers fed with the lines of one entity (SpecCard) *)
(* the Reader constructed on a file (SpecRead) and an entity that is       *)
(* constructed, written with to_line and read with from_line               *)
(* (SpecEntity), the Writer given instances its caller keeps and changes   *)
(* (SpecCopy), and two files merged by merge_meshes (SpecMerge).  Each     *)
(* leaves the variables of the others at rest.                             *)
(***************************************************************************)
VARIABLES
    writer,             \* the Writer object
    file_,              \* the lines of the file given to scan_metadata
    allow_zero_index,   \* the allow_zero_index argument of scan_metadata
    metadata,           \* <<>>, or <<the outcome of scan_metadata>>
    mesh,               \* the mesh that is written and loaded again
    status,             \* how far the round trip has got
    loaded,             \* <<>>, or <<the outcome of _process_entities>>
    pending,            \* the lines of one entity not yet given to a parser
    consumed,           \* the lines given to a parser so far
    zero_mode,          \* the allow_zero_index argument of the parsers
    outcome,            \* <<>>, or <<the outcome of the last from_line call>>
    source,             \* the lines of the file given to the Reader
    reader,             \* <<>>, or <<the Reader object>>
    phase,              \* how far the client of the Reader has got
    request,            \* <<>>, or <<the constructor call made>>
    entity,             \* <<>>, or <<the outcome of the constructor call>>
    folded,             \* the lines of the node string's to_line
    fed,                \* per line given to from_line, the flag it returned
    rebuilt,            \* <<>>, or <<the outcome of the last from_line call>>
    relaxed,            \* the allow_zero_index argument of from_line
    heap,               \* the entity objects: heap[a] is the value of the object at a
    held,               \* the addresses of the instances the caller constructed
    refs,               \* per kind, the addresses the buffer of the Writer holds
    mesh1,              \* the lines of the first file given to merge_meshes
    mesh2,              \* the lines of the second file given to merge_meshes
    merged,             \* <<>>, or <<the outcome of merge_meshes>>
    reloaded            \* <<>>, or <<the entities loaded from the output>>

writerVars == <<writer>>

scanVars == <<file_, allow_zero_index, metadata>>

tripVars == <<mesh, status, loaded>>

cardVars == <<pending, consumed, zero_mode, outcome>>

readVars == <<source, reader, phase>>

entityVars == <<request, entity, folded, fed, rebuilt, relaxed>>

copyVars == <<heap, held, refs>>

mergeVars == <<mesh1, mesh2, merged, reloaded>>

vars == <<writer, file_, allow_zero_index, metadata, mesh, status, loaded,
          pending, consumed, zero_mode, outcome, source, reader, phase,
          request, entity, folded, fed, rebuilt, relaxed,
          heap, held, refs,
          mesh1, mesh2, merged, reloaded>>

Mesh(nodes, elements, node_strings) ==
    [nodes |-> nodes, elements |-> elements, node_strings |-> node_strings]

\* The values of the variables of a machine that is not running.
WriterIdle == writer = writer_init(-1, TRUE, FALSE)

ScanIdle == file_ = <<>> /\ allow_zero_index = FALSE /\ metadata = <<>>

TripIdle == mesh = Mesh(<<>>, <<>>, <<>>) /\ status = "idle" /\ loaded = <<>>

CardIdle ==
    pending = <<>> /\ consumed = <<>> /\ zero_mode = FALSE /\ outcome = <<>>

ReadIdle == source = <<>> /\ reader = <<>> /\ phase = "idle"

EntityIdle ==
    /\ request = <<>> /\ entity = <<>> /\ folded = <<>>
    /\ fed = <<>> /\ rebuilt = <<>> /\ relaxed = FALSE

CopyIdle == heap = <<>> /\ held = {} /\ refs = [K \in Kinds |-> <<>>]

MergeIdle ==
    mesh1 = <<>> /\ mesh2 = <<>> /\ merged = <<>> /\ reloaded = <<>>




(***************************************************************************)
(* The Writer as a state machine: one action per public method, called     *)
(* with arguments from small sets.  A call that raises leaves the state    *)
(* its method leaves at the raise.                                         *)
(***************************************************************************)
\* Writer(materials=.., allow_float_matid=.., zero_index=..); materials=-1
\* is the default.
WriterConfigs ==
    {<<-1, TRUE, FALSE>>, <<-1, FALSE, TRUE>>, <<1, TRUE, TRUE>>, <<1, FALSE, FALSE>>}

NodeIdInputs == {-1, 7}

NodeInputs == {Node(id, 0, 0, 0) : id \in NodeIdInputs}

ElementInputs ==
    {Element("E2L", -1, <<1, 2>>, <<>>),
     Element("E2L", 7, <<1, 2>>, <<IntMat(1)>>),
     Element("E2L", -1, <<1, 2>>, <<FloatMat(15000), IntMat(2)>>),
     Element("E2L", -1, <<1, 2>>, <<IntMat(1), IntMat(2)>>)}

NodeStringInputs == {NodeString(<<1, 2>>, <<>>)}

\* Entities inserted so far.
Inserted ==
    writer.count["node"] + writer.count["element"] + writer.count["node string"]

Call(r) ==
    /\ writer' = r.w
    /\ UNCHANGED <<scanVars, tripVars, cardVars, readVars, entityVars,
                   copyVars, mergeVars>>

Init ==
    /\ \E c \in WriterConfigs : writer = writer_init(c[1], c[2], c[3])
    /\ ScanIdle
    /\ TripIdle
    /\ CardIdle
    /\ ReadIdle
    /\ EntityIdle
    /\ CopyIdle
    /\ MergeIdle

Open == Call(open(writer))

Close == Call(close(writer))

InsertNode ==
    \E n \in NodeInputs, extra \in BOOLEAN :
        /\ Inserted < MaxEntities
        /\ Call(node(writer, n, extra))

InsertElement ==
    \E e \in ElementInputs, extra \in BOOLEAN :
        /\ Inserted < MaxEntities
        /\ Call(element(writer, e, extra))

InsertNodeString ==
    \E ns \in NodeStringInputs, extra \in BOOLEAN :
        /\ Inserted < MaxEntities
        /\ Call(node_string(writer, ns, extra))

FlushNodes == Call(flush_nodes(writer))

FlushElements == Call(flush_elements(writer))

FlushNodeStrings == Call(flush_node_strings(writer))

WriteHeader == Call(write_header(writer))

Next ==
    \/ Open
    \/ Close
    \/ InsertNode
    \/ InsertElement
    \/ InsertNodeString
    \/ FlushNodes
    \/ FlushElements
    \/ FlushNodeStrings
    \/ WriteHeader

Spec == Init /\ [][Next]_vars

(***************************************************************************)
(* The metadata scan as a state machine: a file of at most MaxScanLines    *)
(* lines is chosen and scan_metadata is applied to it.                     *)
(***************************************************************************)
ScanNodeIds == {-1, 0, 1, 2, 3}

ScanElementIds == {-1, 1, 2}

ScanLineInputs ==
    {Line(FALSE, <<>>), Line(FALSE, <<Word("#"), Word("MESH2D")>>)}
    \cup Range(header_lines(1))
    \cup {Line(FALSE, node_to_line(Node(id, 0, 0, 0))) : id \in ScanNodeIds}
    \cup {Line(FALSE, element_to_line(Element("E3T", id, <<1, 2, 3>>, <<IntMat(1)>>))) :
              id \in ScanElementIds}
    \cup {Line(FALSE, <<Word("NS"), StrInt(1), StrInt(2)>>),
          Line(FALSE, <<Word("NS"), StrInt(3), StrInt(-4)>>)}
    \cup {Line(FALSE, <<Word("MESHNAME")>>),
          Line(FALSE, <<Word("MESHNAME"), Word("a")>>),
          Line(FALSE, <<Word("GM"), Word("\"a\"")>>)}

ScanFileInputs == UNION {[1..n -> ScanLineInputs] : n \in 0..MaxScanLines}

ScanInit ==
    /\ file_ \in ScanFileInputs
    /\ allow_zero_index \in BOOLEAN
    /\ metadata = <<>>
    /\ WriterIdle
    /\ TripIdle
    /\ CardIdle
    /\ ReadIdle
    /\ EntityIdle
    /\ CopyIdle
    /\ MergeIdle

ScanMetadata ==
    /\ metadata = <<>>
    /\ metadata' = <<scan_metadata(file_, allow_zero_index)>>
    /\ UNCHANGED <<file_, allow_zero_index, writerVars, tripVars, cardVars,
                   readVars, entityVars, copyVars, mergeVars>>

ScanNext == ScanMetadata

SpecScan == ScanInit /\ [][ScanNext]_vars

(***************************************************************************)
(* The round trip as a state machine: the entities of a mesh are inserted  *)
(* into a Writer inside a with statement, nodes first, then elements, then *)
(* node strings, as copy_file of src/tests/writer_test.py does; the with   *)
(* statement closes the Writer and the lines of its file are loaded by the *)
(* entity loader.                                                          *)
(***************************************************************************)
\* What the reading path can return: positive IDs, node IDs of elements
\* that are not negative, as many nodes as the card takes, node strings of
\* two or more positive nodes.
Loadable(m) ==
    /\ \A i \in 1..Len(m.nodes) : m.nodes[i].id > 0
    /\ \A i \in 1..Len(m.elements) :
           /\ m.elements[i].id > 0
           /\ m.elements[i].card \in ELEMENT_CARDS
           /\ Len(m.elements[i].nodes) = nodes_per_element(m.elements[i].card)
           /\ \A j \in 1..Len(m.elements[i].nodes) : m.elements[i].nodes[j] >= 0
    /\ \A i \in 1..Len(m.node_strings) :
           /\ Len(m.node_strings[i].nodes) >= 2
           /\ \A j \in 1..Len(m.node_strings[i].nodes) :
                  m.node_strings[i].nodes[j] > 0

MeshNodeInputs ==
    {[i \in 1..n |-> Node(i, 15000, 0, -25000)] : n \in 0..MaxPerKind}

\* Card, nodes and materials of the elements of the meshes.
ElementShapes ==
    {<<"E2L", <<1, 2>>, <<>>>>,
     <<"E3T", <<1, 2, 3>>, <<IntMat(1)>>>>,
     <<"E2L", <<2, 1>>, <<IntMat(3), FloatMat(15000)>>>>,
     <<"E2L", <<1, 2>>, <<FloatMat(12346)>>>>}

MeshElementInputs ==
    {[i \in DOMAIN f |-> Element(f[i][1], i, f[i][2], f[i][3])] :
         f \in UNION {[1..n -> ElementShapes] : n \in 0..MaxPerKind}}

MeshNodeStringShapes ==
    {NodeString(<<1, 2>>, <<>>),
     NodeString(<<2, 1>>, <<"a">>),
     NodeString(<<3, 1>>, <<"">>),
     NodeString(<<1, 2, 3, 4, 5, 6, 7, 8, 9, 10, 11>>, <<"a">>)}

MeshNodeStringInputs ==
    UNION {[1..n -> MeshNodeStringShapes] : n \in 0..MaxPerKind}

MeshInputs ==
    {m \in {Mesh(n, e, s) : n \in MeshNodeInputs, e \in MeshElementInputs,
                            s \in MeshNodeStringInputs} : Loadable(m)}

\* The number of materials of a mesh as _write_converted takes it: that of
\* the first element.
materials_of_mesh(m) ==
    IF m.elements # <<>> THEN num_materials_of(m.elements[1]) ELSE 0

\* The entities of the mesh in the order they are inserted.
Entities(m) == m.nodes \o m.elements \o m.node_strings

\* Writer.node, Writer.element or Writer.node_string, by the entity's kind.
insert(w, e) ==
    CASE e.card = "ND" -> node(w, e, FALSE)
      [] e.card = "NS" -> node_string(w, e, FALSE)
      [] OTHER -> element(w, e, FALSE)

\* The mesh to copy and the Writer made for it, with the default material
\* count or with that of the mesh.
TripInit ==
    /\ mesh \in MeshInputs
    /\ writer \in {writer_init(-1, TRUE, FALSE),
                   writer_init(materials_of_mesh(mesh), TRUE, FALSE)}
    /\ status = "new"
    /\ loaded = <<>>
    /\ ScanIdle
    /\ CardIdle
    /\ ReadIdle
    /\ EntityIdle
    /\ CopyIdle
    /\ MergeIdle

\* Writer.__enter__
TripOpen ==
    /\ status = "new"
    /\ writer' = open(writer).w
    /\ status' = "writing"
    /\ UNCHANGED <<mesh, loaded, scanVars, cardVars, readVars, entityVars,
                   copyVars, mergeVars>>

\* One pass of the loops of the with statement; an insert that raises
\* leaves the with statement, which closes the writer.
TripInsert ==
    /\ status = "writing"
    /\ Inserted < Len(Entities(mesh))
    /\ LET r == insert(writer, Entities(mesh)[Inserted + 1])
       IN  /\ writer' = IF r.exc = "none" THEN r.w ELSE close(r.w).w
           /\ status' = IF r.exc = "none" THEN "writing" ELSE "raised"
    /\ UNCHANGED <<mesh, loaded, scanVars, cardVars, readVars, entityVars,
                   copyVars, mergeVars>>

\* Writer.__exit__ at the end of the with statement.
TripClose ==
    /\ status = "writing"
    /\ Inserted = Len(Entities(mesh))
    /\ LET r == close(writer)
       IN  /\ writer' = r.w
           /\ status' = IF r.exc = "none" THEN "closed" ELSE "raised"
    /\ UNCHANGED <<mesh, loaded, scanVars, cardVars, readVars, entityVars,
                   copyVars, mergeVars>>

TripLoad ==
    /\ status = "closed"
    /\ loaded' = <<process_entities(writer.file)>>
    /\ status' = "loaded"
    /\ UNCHANGED <<writer, mesh, scanVars, cardVars, readVars, entityVars,
                   copyVars, mergeVars>>

TripNext ==
    \/ TripOpen
    \/ TripInsert
    \/ TripClose
    \/ TripLoad

SpecTrip == TripInit /\ [][TripNext]_vars

(***************************************************************************)
(* The card parsers as a state machine: the lines of one entity - one ND   *)
(* line, one element line, or the NS lines of one node string - are given  *)
(* to from_line one after the other, the node string in progress being     *)
(* passed back in as _process_entities does.                               *)
(***************************************************************************)
CardIdInputs == {-1, 0, 1}

CardNodeLineInputs ==
    {<<Line(FALSE, node_to_line(Node(id, 15000, 0, 0)))>> : id \in CardIdInputs}

CardElementLineInputs ==
    {<<Line(FALSE, element_to_line(Element("E2L", id, <<a, b>>, <<IntMat(1)>>)))>> :
         id \in CardIdInputs, a \in CardIdInputs, b \in {0, 2}}

\* The node tokens of NS lines: n or -n, "-0" included.
NodeTokenInputs == {IntTok(neg, v) : neg \in BOOLEAN, v \in 0..2}

\* What follows the last node token: nothing, or a name.
NameTokenInputs == {<<>>, <<Word("a")>>, <<Word("\"a\"")>>}

\* The ways of cutting n tokens into lines: the positions after which a
\* new line starts.
Cuts(n) == SUBSET (1..(n - 1))

\* The tokens toks cut at the positions of cut, from token i on; cur is the
\* line being filled.
RECURSIVE cut_lines(_, _, _, _)
cut_lines(toks, cut, i, cur) ==
    IF i > Len(toks) THEN <<Line(FALSE, <<Word("NS")>> \o cur)>>
    ELSE IF i \in cut
    THEN <<Line(FALSE, <<Word("NS")>> \o Append(cur, toks[i]))>>
         \o cut_lines(toks, cut, i + 1, <<>>)
    ELSE cut_lines(toks, cut, i + 1, Append(cur, toks[i]))

\* The NS lines of the node tokens toks, cut at cut, the name on the last.
ns_lines(toks, cut, name) ==
    LET ls == cut_lines(toks, cut, 1, <<>>)
    IN  [ls EXCEPT ![Len(ls)] = Line(FALSE, @.toks \o name)]

CardNodeStringLineInputs ==
    {ns_lines(toks, cut, name) :
         <<toks, cut>> \in UNION {[1..n -> NodeTokenInputs] \X Cuts(n) :
                                      n \in 1..MaxNodeTokens},
         name \in NameTokenInputs}

CardInit ==
    /\ pending \in CardNodeLineInputs \cup CardElementLineInputs
                       \cup CardNodeStringLineInputs
    /\ consumed = <<>>
    /\ zero_mode \in BOOLEAN
    /\ outcome = <<>>
    /\ WriterIdle
    /\ ScanIdle
    /\ TripIdle
    /\ ReadIdle
    /\ EntityIdle
    /\ CopyIdle
    /\ MergeIdle

\* The node string in progress: the argument from_line is given for the
\* next line.
InProgress ==
    IF outcome = <<>> THEN <<>> ELSE <<outcome[1].val[1]>>

Consume(r) ==
    /\ outcome' = <<r>>
    /\ consumed' = Append(consumed, Head(pending))
    /\ pending' = Tail(pending)
    /\ UNCHANGED <<zero_mode, writerVars, scanVars, tripVars, readVars,
                   entityVars, copyVars, mergeVars>>

ParseNode ==
    /\ pending # <<>>
    /\ outcome = <<>>
    /\ FirstWordIs(Head(pending), "ND")
    /\ Consume(node_from_line(Head(pending), zero_mode))

ParseElement ==
    /\ pending # <<>>
    /\ outcome = <<>>
    /\ element_factory(Head(pending)).exc = "none"
    /\ Consume(element_from_line(element_factory(Head(pending)).val,
                                 Head(pending), TRUE, zero_mode))

\* The first line of a node string, or the next line of one that is not
\* done.
ParseNodeString ==
    /\ pending # <<>>
    /\ FirstWordIs(Head(pending), "NS")
    /\ outcome # <<>> => (outcome[1].exc = "none" /\ ~outcome[1].val[2])
    /\ Consume(node_string_from_line(Head(pending), InProgress, zero_mode))

CardNext ==
    \/ ParseNode
    \/ ParseElement
    \/ ParseNodeString

SpecCard == CardInit /\ [][CardNext]_vars

(***************************************************************************)
(* The Reader as a state machine: a file of at most MaxScanLines lines is  *)
(* given to the constructor, and the reader constructed is closed.         *)
(***************************************************************************)
ReadIdInputs == {0, 1}

ReadLineInputs ==
    {Line(FALSE, <<>>), Line(FALSE, <<Word("MESH2D")>>),
     Line(FALSE, <<Word("NS"), StrInt(1), StrInt(-2)>>),
     Line(FALSE, element_to_line(Element("E2L", 1, <<1, 2>>, <<>>)))}
    \cup {Line(FALSE, node_to_line(Node(id, 0, 0, 0))) : id \in ReadIdInputs}
    \cup {Line(TRUE, element_to_line(Element("E2L", id, <<1, 2>>, <<>>))) :
              id \in ReadIdInputs}

ReadFileInputs == UNION {[1..n -> ReadLineInputs] : n \in 0..MaxScanLines}

ReadInit ==
    /\ source \in ReadFileInputs
    /\ reader = <<>>
    /\ phase = "new"
    /\ WriterIdle
    /\ ScanIdle
    /\ TripIdle
    /\ CardIdle
    /\ EntityIdle
    /\ CopyIdle
    /\ MergeIdle

\* Reader(filepath, lazy=..., zero_index=...).
ReaderNew ==
    /\ phase = "new"
    /\ \E lazy \in BOOLEAN, zero_index \in BOOLEAN :
           LET r == reader_init(source, lazy, zero_index)
           IN  IF r.exc = "none"
               THEN reader' = <<r.val>> /\ phase' = "ready"
               ELSE reader' = <<>> /\ phase' = "failed"
    /\ UNCHANGED <<source, writerVars, scanVars, tripVars, cardVars,
                   entityVars, copyVars, mergeVars>>

\* reader.close().
ReaderClose ==
    /\ phase = "ready"
    /\ reader' = <<reader_close(reader[1])>>
    /\ phase' = "closed"
    /\ UNCHANGED <<source, writerVars, scanVars, tripVars, cardVars,
                   entityVars, copyVars, mergeVars>>

ReadNext ==
    \/ ReaderNew
    \/ ReaderClose

SpecRead == ReadInit /\ [][ReadNext]_vars

(***************************************************************************)
(* The entities as a state machine: an element or a node string is         *)
(* constructed; a node string constructed is written with to_line, the     *)
(* words are cut into lines at the newline words, and the lines are given  *)
(* to from_line one after the other, each call extending the node string   *)
(* the call before returned.                                               *)
(***************************************************************************)
ElementNodeInputs == {[i \in 1..n |-> i] : n \in 0..MaxElementNodes}

ElementMaterialInputs == {<<>>, <<IntMat(1)>>}

StringIdInputs == {0, 1, 2}

StringNodeInputs == UNION {[1..n -> StringIdInputs] : n \in 0..MaxStringNodes}

StringNameInputs == {<<>>, <<"a">>}

\* The lines of ' '.join(piece) for the pieces of words between the newline
\* words.
RECURSIVE LinesOfWords(_, _)
LinesOfWords(words, acc) ==
    IF words = <<>> THEN <<Line(FALSE, acc)>>
    ELSE IF Head(words) = NewLine
         THEN <<Line(FALSE, acc)>> \o LinesOfWords(Tail(words), <<>>)
         ELSE LinesOfWords(Tail(words), Append(acc, Head(words)))

EntityInit ==
    /\ request = <<>>
    /\ entity = <<>>
    /\ folded = <<>>
    /\ fed = <<>>
    /\ rebuilt = <<>>
    /\ relaxed \in BOOLEAN
    /\ WriterIdle
    /\ ScanIdle
    /\ TripIdle
    /\ CardIdle
    /\ ReadIdle
    /\ CopyIdle
    /\ MergeIdle

\* Element2L(id_, *nodes, materials=materials) and the other six variants.
NewElement ==
    /\ request = <<>>
    /\ \E card \in ELEMENT_CARDS, nodes \in ElementNodeInputs,
          materials \in ElementMaterialInputs :
           /\ request' = <<[kind |-> "element", card |-> card, nodes |-> nodes,
                            materials |-> materials]>>
           /\ entity' = <<element_init(card, 1, nodes, materials)>>
    /\ UNCHANGED <<folded, fed, rebuilt, relaxed, writerVars, scanVars,
                   tripVars, cardVars, readVars, copyVars, mergeVars>>

\* NodeString(*nodes, name=name).
NewNodeString ==
    /\ request = <<>>
    /\ \E nodes \in StringNodeInputs, name \in StringNameInputs :
           /\ request' = <<[kind |-> "node string", nodes |-> nodes,
                            name |-> name]>>
           /\ entity' = <<node_string_init(nodes, name)>>
    /\ UNCHANGED <<folded, fed, rebuilt, relaxed, writerVars, scanVars,
                   tripVars, cardVars, readVars, copyVars, mergeVars>>

\* ns.to_line(fold_after=w), cut into lines.
ToLine ==
    /\ request # <<>>
    /\ request[1].kind = "node string"
    /\ entity[1].exc = "none"
    /\ folded = <<>>
    /\ \E w \in 1..MaxFold :
           folded' = LinesOfWords(node_string_to_line(entity[1].val, w), <<>>)
    /\ UNCHANGED <<request, entity, fed, rebuilt, relaxed, writerVars,
                   scanVars, tripVars, cardVars, readVars, copyVars, mergeVars>>

\* NodeString.from_line(line, node_string, allow_zero_index=relaxed) for the
\* next line; node_string is what the call before returned.
FromLine ==
    /\ Len(fed) < Len(folded)
    /\ rebuilt # <<>> => rebuilt[1].exc = "none"
    /\ LET previous == IF rebuilt = <<>> THEN <<>> ELSE <<rebuilt[1].val[1]>>
           r == node_string_from_line(folded[Len(fed) + 1], previous, relaxed)
       IN  /\ rebuilt' = <<r>>
           /\ fed' = Append(fed, IF r.exc = "none" THEN r.val[2] ELSE FALSE)
    /\ UNCHANGED <<request, entity, folded, relaxed, writerVars, scanVars,
                   tripVars, cardVars, readVars, copyVars, mergeVars>>

EntityNext ==
    \/ NewElement
    \/ NewNodeString
    \/ ToLine
    \/ FromLine

SpecEntity == EntityInit /\ [][EntityNext]_vars

(***************************************************************************)
(* The Writer and its caller as a state machine: the caller constructs     *)
(* entities, passes them to node(), element() and node_string() of an open *)
(* Writer, assigns to their attributes and flushes the buffers.            *)
(***************************************************************************)
\* The values the caller may give an instance of value v by assigning to its
\* attributes.
Reassigned(v) ==
    CASE v.card = "ND" -> NodeInputs \ {v}
      [] v.card = "NS" ->
             {NodeString(<<1, 2>>, <<>>), NodeString(<<2, 1>>, <<"a">>)} \ {v}
      [] OTHER -> ElementInputs \ {v}

CopyState == [writer |-> writer, heap |-> heap, refs |-> refs]

CopyStep(st) ==
    /\ writer' = st.writer
    /\ heap' = st.heap
    /\ refs' = st.refs
    /\ UNCHANGED <<scanVars, tripVars, cardVars, readVars, entityVars,
                   mergeVars>>

CopyInit ==
    /\ \E c \in WriterConfigs : writer = open(writer_init(c[1], c[2], c[3])).w
    /\ heap = <<>>
    /\ held = {}
    /\ refs = [K \in Kinds |-> <<>>]
    /\ ScanIdle
    /\ TripIdle
    /\ CardIdle
    /\ ReadIdle
    /\ EntityIdle
    /\ MergeIdle

\* The caller constructs a node, an element or a node string.
NewInstance ==
    /\ Len(heap) < MaxObjects
    /\ Cardinality(held) < MaxHeld
    /\ \E v \in NodeInputs \cup ElementInputs \cup NodeStringInputs :
           heap' = Append(heap, v)
    /\ held' = held \cup {Len(heap) + 1}
    /\ UNCHANGED <<writer, refs, scanVars, tripVars, cardVars, readVars,
                   entityVars, mergeVars>>

\* writer.node(instance), writer.element(instance) or
\* writer.node_string(instance).
InsertInstance ==
    /\ Len(heap) < MaxObjects
    /\ \E a \in held, extra \in BOOLEAN :
           CopyStep(insert_instance(CopyState, a, extra))
    /\ UNCHANGED held

\* instance.id = ..., instance.materials = ..., instance.nodes = ...
CallerAssign ==
    /\ \E a \in held :
           \E v \in Reassigned(heap[a]) : CopyStep(caller_assign(CopyState, a, v))
    /\ UNCHANGED held

CopyFlush ==
    /\ \E K \in Kinds : CopyStep(flush_refs(CopyState, K))
    /\ UNCHANGED held

CopyNext ==
    \/ NewInstance
    \/ InsertInstance
    \/ CallerAssign
    \/ CopyFlush

SpecCopy == CopyInit /\ [][CopyNext]_vars

(***************************************************************************)
(* merge_meshes as a state machine: two files of at most MaxMergeNodes     *)
(* nodes each are merged, and the output is loaded with the entity loader. *)
(***************************************************************************)
\* The (x, y, z) of the nodes of the files; two of them differ in z only.
MergePositions == {<<0, 0, 0>>, <<10000, 0, 0>>, <<10000, 0, 20000>>}

MergeNodeInputs ==
    {[i \in DOMAIN f |-> Node(i, f[i][1], f[i][2], f[i][3])] :
         f \in UNION {[1..n -> MergePositions] : n \in 0..MaxMergeNodes}}

\* The elements and node strings of the files.
MergeShapes ==
    {<<>>,
     <<Element("E2L", 1, <<1, 2>>, <<>>)>>,
     <<Element("E2L", 1, <<2, 1>>, <<IntMat(5)>>), NodeString(<<1, 2>>, <<"b">>)>>}

\* The lines of a file with the entities, one line each.
MergeFileInputs ==
    {[i \in 1..Len(n \o e) |-> Line(FALSE, to_line((n \o e)[i]))] :
         n \in MergeNodeInputs, e \in MergeShapes}

MergeInit ==
    /\ mesh1 \in MergeFileInputs
    /\ mesh2 \in MergeFileInputs
    /\ merged = <<>>
    /\ reloaded = <<>>
    /\ WriterIdle
    /\ ScanIdle
    /\ TripIdle
    /\ CardIdle
    /\ ReadIdle
    /\ EntityIdle
    /\ CopyIdle

\* merge_meshes(mesh1, mesh2, output)
MergeMeshes ==
    /\ merged = <<>>
    /\ merged' = <<merge_meshes(mesh1, mesh2)>>
    /\ UNCHANGED <<mesh1, mesh2, reloaded, writerVars, scanVars, tripVars,
                   cardVars, readVars, entityVars, copyVars>>

\* The output of a merge that returned is loaded.
LoadMerged ==
    /\ merged # <<>>
    /\ merged[1].exc = "none"
    /\ reloaded = <<>>
    /\ reloaded' = <<process_entities(merged[1].file)>>
    /\ UNCHANGED <<mesh1, mesh2, merged, writerVars, scanVars, tripVars,
                   cardVars, readVars, entityVars, copyVars>>

MergeNext ==
    \/ MergeMeshes
    \/ LoadMerged

SpecMerge == MergeInit /\ [][MergeNext]_vars

(***************************************************************************)
(* Properties of the Writer.  A property about what a call does is stated  *)
(* in every reachable state, for every argument of the input sets, about   *)
(* the outcome the method has in that state.                               *)
(***************************************************************************)
\* The kind of entity a written line holds ("header" for the header lines).
LineKind(line) ==
    LET c == line.toks[1].s
    IN  CASE c = "ND" -> "node"
          [] c \in ELEMENT_CARDS -> "element"
          [] c = "NS" -> "node string"
          [] OTHER -> "header"

CountLines(lines, K) == Cardinality({i \in 1..Len(lines) : LineKind(lines[i]) = K})

\* The outcomes of inserting the inputs of kind K, with and without extra
\* arguments.
InsertOutcomes(w, K) ==
    CASE K = "node" -> {node(w, n, x) : n \in NodeInputs, x \in BOOLEAN}
      [] K = "element" -> {element(w, e, x) : e \in ElementInputs, x \in BOOLEAN}
      [] OTHER -> {node_string(w, ns, x) : ns \in NodeStringInputs, x \in BOOLEAN}

\* C1: on an open writer, once a kind K has been flushed and afterwards a
\* different kind L, every attempt to insert an entity of kind K and every
\* attempt to flush kind K raises WriteError and leaves the writer, its
\* buffer included, as it was.
C1_BlockOrderRejected ==
    \A K \in Kinds, L \in Kinds :
        (<<K, L>> \in writer.after /\ ~writer.closed) =>
            \A r \in InsertOutcomes(writer, K) \cup {flush(writer, K)} :
                r.exc = "WriteError" /\ r.w = writer

\* Nodes were flushed, then elements, then node strings; the writer is open
\* and a node insert is rejected.
C1_Witness ==
    /\ ~writer.closed
    /\ <<"node", "element">> \in writer.after
    /\ <<"node", "node string">> \in writer.after
    /\ CountLines(writer.written, "node") > 0
    /\ node(writer, Node(-1, 0, 0, 0), FALSE).exc = "WriteError"

OneBlockPerKind(lines) ==
    \A i, j, k \in 1..Len(lines) :
        (/\ i < j
         /\ j < k
         /\ LineKind(lines[i]) \in Kinds
         /\ LineKind(lines[j]) \in Kinds
         /\ LineKind(lines[k]) = LineKind(lines[i]))
        => LineKind(lines[j]) = LineKind(lines[i])

\* C2: whatever calls were made, the entity lines written (all of them, and
\* those written through the handle that is open now) form at most one
\* contiguous block per kind.
C2_ContiguousBlocks ==
    /\ OneBlockPerKind(writer.written)
    /\ OneBlockPerKind(handle_text(writer))

\* Two blocks are on disk and a buffered entity of the first block's kind
\* can no longer be written: flushing it, and close(), raise.
C2_Witness ==
    /\ ~writer.closed
    /\ CountLines(writer.written, "node") > 0
    /\ CountLines(writer.written, "element") > 0
    /\ writer.cache["node"] # <<>>
    /\ flush_nodes(writer).exc = "WriteError"
    /\ close(writer).exc = "WriteError"

\* C6: every buffered element has exactly materials_per_element materials;
\* once the count is fixed, element() raises and buffers nothing for an
\* element with fewer materials, and an element with more materials is
\* either rejected by another check (closed writer, block order, extra
\* arguments, float material) with nothing buffered, or buffered truncated
\* to the count with a warning - which is what happens whenever none of
\* those checks applies.
C6_MaterialCountEnforced ==
    /\ \A i \in 1..Len(writer.cache["element"]) :
           Len(writer.cache["element"][i].materials) = writer.num_materials
    /\ writer.num_materials >= 0 =>
         \A e \in ElementInputs, extra \in BOOLEAN :
             LET r == element(writer, e, extra)
                 n == writer.num_materials
                 cut == SubSeq(e.materials, 1, n)
                 rejected ==
                     \/ writer.closed
                     \/ check_flush_state_raises(writer, "element")
                     \/ extra
                     \/ ~writer.float_materials
                        /\ \E i \in 1..Len(cut) : ~cut[i].isint
             IN  /\ Len(e.materials) < n =>
                       /\ r.exc # "none"
                       /\ r.w.cache = writer.cache
                       /\ r.w.count = writer.count
                 /\ Len(e.materials) > n =>
                       IF rejected
                       THEN r.exc # "none" /\ r.w.cache = writer.cache
                       ELSE /\ r.exc = "none"
                            /\ r.warned
                            /\ Len(r.w.cache["element"]) = Len(writer.cache["element"]) + 1
                            /\ Last(r.w.cache["element"]).materials = cut

\* An element given with two materials sits in the buffer with one.
C6_Witness ==
    /\ writer.num_materials = 1
    /\ \E i \in 1..Len(writer.cache["element"]) :
           writer.cache["element"][i].materials = <<FloatMat(15000)>>

\* The call that inserts the first element into a writer constructed
\* without a material count.
FirstElementCall(e, r) ==
    /\ writer.materials_kw < 0
    /\ writer.count["element"] = 0
    /\ r = element(writer, e, FALSE)
    /\ r.exc = "none"

HasHeader(w) == \E i \in 1..Len(w.written) : LineKind(w.written[i]) = "header"

\* The outcomes of every public operation of the Writer but element().
OtherOutcomes(w) ==
    InsertOutcomes(w, "node") \cup InsertOutcomes(w, "node string")
        \cup {flush(w, K) : K \in Kinds}
        \cup {write_header(w), open(w), close(w)}

C8_CloseWritesEverything ==
    ~writer.closed =>
        LET r == close(writer)
            header == IF writer.written = <<>>
                      THEN SubSeq(r.w.written, 1, 2) ELSE <<>>
        IN  /\ r.exc = "none"
            /\ r.w.closed
            /\ \A K \in Kinds : r.w.cache[K] = <<>>
            /\ r.w.written = writer.written \o header
                                \o cache_lines(writer, "node")
                                \o cache_lines(writer, "element")
                                \o cache_lines(writer, "node string")

\* C9: the header is written once, as the first two lines, before every
\* entity line; on an open writer every flush_* and close() that returns
\* has written it, and write_header() raises WriteError and writes nothing
\* once anything was written.
C9_HeaderOnceAndFirst ==
    /\ writer.written # <<>> =>
          /\ Len(writer.written) >= 2
          /\ writer.written[1] = Line(FALSE, <<Word("MESH2D")>>)
          /\ writer.written[2].toks[1] = Word("NUM_MATERIALS_PER_ELEM")
          /\ \A i \in 3..Len(writer.written) : LineKind(writer.written[i]) \in Kinds
    /\ ~writer.closed =>
          /\ \A r \in {flush(writer, K) : K \in Kinds} \cup {close(writer)} :
                 (r.exc = "none" /\ writer.written = <<>>) =>
                     SubSeq(r.w.written, 1, 2) = header_lines(r.w.num_materials)
          /\ writer.written # <<>> =>
                 /\ write_header(writer).exc = "WriteError"
                 /\ write_header(writer).w = writer

\* The header and two blocks are written, and write_header() is refused.
C9_Witness ==
    /\ ~writer.closed
    /\ CountLines(writer.written, "header") = 2
    /\ CountLines(writer.written, "node") > 0
    /\ CountLines(writer.written, "node string") > 0
    /\ write_header(writer).exc = "WriteError"

\* Entities of kind K inserted so far, flushed or not.
InsertedCount(K) == Len(writer.cache[K]) + CountLines(writer.written, K)

Base == IF writer.zero_index THEN 0 ELSE 1

\* C10: a node() or element() call that returns has stored and returned
\* the ID count + 1 (count + 0 in zero-index mode) if it was given a
\* negative ID, count being the number of entities of the kind inserted so
\* far, flushed or not; an ID that is not negative is stored and returned
\* as given.
C10_AutoId ==
    /\ \A n \in NodeInputs :
           LET r == node(writer, n, FALSE)
               id == IF n.id < 0 THEN InsertedCount("node") + Base ELSE n.id
           IN  r.exc = "none" =>
                   /\ r.ret = id
                   /\ Last(r.w.cache["node"]) = [n EXCEPT !.id = id]
    /\ \A e \in ElementInputs :
           LET r == element(writer, e, FALSE)
               id == IF e.id < 0 THEN InsertedCount("element") + Base ELSE e.id
           IN  r.exc = "none" =>
                   /\ r.ret = id
                   /\ Last(r.w.cache["element"]).id = id

\* A node was flushed and the node inserted after it was given the next ID.
C10_Witness ==
    /\ ~writer.closed
    /\ CountLines(writer.written, "node") = 1
    /\ Len(writer.cache["node"]) = 1
    /\ writer.cache["node"][1].id = 1 + Base

\* The outcomes of the methods and properties that need an open file.
GuardedOutcomes(w) ==
    UNION {InsertOutcomes(w, K) : K \in Kinds}
    \cup {flush_nodes(w), flush_elements(w), flush_node_strings(w),
          write_header(w), writer_num_nodes(w), writer_num_elements(w),
          writer_num_node_strings(w), materials_per_element(w)}

\* C14: a Writer is closed when constructed, open() opens it, a close()
\* that returns leaves it closed, and while it is closed node(), element(),
\* node_string(), the flush methods, write_header() and the properties
\* num_nodes, num_elements, num_node_strings and materials_per_element raise
\* FileIsClosedError and leave the writer - buffers, counts, write history,
\* file - as it was, so that only open() ends the closed state.
C14_ClosedWriterRaises ==
    /\ \A c \in WriterConfigs : writer_init(c[1], c[2], c[3]).closed
    /\ ~open(writer).w.closed
    /\ close(writer).exc = "none" => close(writer).w.closed
    /\ writer.closed =>
           /\ close(writer).w = writer
           /\ \A r \in GuardedOutcomes(writer) :
                  r.exc = "FileIsClosedError" /\ r.w = writer

\* The writer was opened, used and closed: it holds counts, a write
\* history and written lines, and refuses a flush.
C14_Witness ==
    /\ writer.closed
    /\ writer.count["node"] > 0
    /\ writer.count["element"] > 0
    /\ Len(writer.write_history) = 3
    /\ writer.file # <<>>
    /\ flush_nodes(writer).exc = "FileIsClosedError"

\* The lines of the entities es, one after the other.
EntityLines(es) == Flatten([i \in 1..Len(es) |-> JoinWords(to_line(es[i]))])

\* The header lines a flush writes first: none once the write history has
\* the header.
FlushHeader(w, r) ==
    IF "header" \in Range(w.write_history) THEN <<>>
    ELSE header_lines(r.w.num_materials)

\* C21: inserting an entity never changes the file; a flush of kind K that
\* returns appends to the text written through the handle (after the
\* header, if it is not yet written) exactly the lines of the entities
\* buffered for K in insertion order and leaves the rest of the file,
\* empties buffer K and leaves the other buffers and the three counts as
\* they were; each count is the number of entities of its kind inserted so
\* far, buffered or written, and an insert that returns adds one to it.
C21_FlushFrame ==
    /\ \A K \in Kinds :
           /\ writer.count[K] = InsertedCount(K)
           /\ \A r \in InsertOutcomes(writer, K) :
                  /\ r.w.file = writer.file
                  /\ r.w.written = writer.written
                  /\ r.w.count =
                         IF r.exc = "none"
                         THEN [writer.count EXCEPT ![K] = @ + 1]
                         ELSE writer.count
                  /\ r.exc = "none" =>
                         /\ Len(r.w.cache[K]) = Len(writer.cache[K]) + 1
                         /\ SubSeq(r.w.cache[K], 1, Len(writer.cache[K]))
                                = writer.cache[K]
    /\ \A K \in Kinds :
           LET r == flush(writer, K)
           IN  /\ r.w.count = writer.count
               /\ r.exc = "none" =>
                      /\ handle_text(r.w) =
                             handle_text(writer) \o FlushHeader(writer, r)
                                 \o EntityLines(writer.cache[K])
                      /\ left_text(r.w) = left_text(writer)
                      /\ r.w.cache = [writer.cache EXCEPT ![K] = <<>>]
               /\ r.exc # "none" =>
                      r.w.file = writer.file /\ r.w.cache = writer.cache

\* Two nodes and an element are buffered, nothing is written yet, and
\* flushing the nodes writes the header and the two nodes.
C21_Witness ==
    /\ ~writer.closed
    /\ Len(writer.cache["node"]) = 2
    /\ writer.cache["element"] # <<>>
    /\ writer.written = <<>>
    /\ flush(writer, "node").exc = "none"
    /\ Len(flush(writer, "node").w.file) = 4

\* The outcomes of every public operation of the Writer.
AllOutcomes(w) == GuardedOutcomes(w) \cup {open(w), close(w)}

\* C23: once materials_per_element is not negative - given at construction,
\* inferred from an element or set to zero by write_header - no operation
\* changes it, whether it returns or raises.
C23_MaterialCountFixed ==
    writer.num_materials >= 0 =>
        \A r \in AllOutcomes(writer) :
            r.w.num_materials = writer.num_materials

\* The count was inferred as 2 from the first element, and a second element
\* was inserted after it.
C23_Witness ==
    /\ writer.materials_kw < 0
    /\ writer.num_materials = 2
    /\ writer.count["element"] = 2
    /\ ~writer.closed

\* C25: a node_string() call that returns has returned the zero-based index
\* of the node string added: the number of node strings inserted before it.
C25_NodeStringIndex ==
    \A ns \in NodeStringInputs :
        LET r == node_string(writer, ns, FALSE)
        IN  r.exc = "none" => r.ret = InsertedCount("node string")

\* C27: an element() call that raises leaves the writer as it was before
\* the call: buffers, counts, write history and materials_per_element.
C27_FailedElementLeavesWriter ==
    \A e \in ElementInputs, extra \in BOOLEAN :
        LET r == element(writer, e, extra)
        IN  r.exc # "none" =>
                /\ r.w.cache = writer.cache
                /\ r.w.count = writer.count
                /\ r.w.write_history = writer.write_history
                /\ r.w.num_materials = writer.num_materials

\* An entity of kind K was written, and after it an entity of another kind.
WrittenBeforeOther(lines, K) ==
    \E i, j \in 1..Len(lines) :
        /\ i < j
        /\ LineKind(lines[i]) = K
        /\ LineKind(lines[j]) \in Kinds \ {K}

\* C28: flushing an empty buffer does not restrict later writes: an insert
\* or a flush of kind K raises WriteError only if an entity of kind K was
\* written before an entity of another kind.
C28_EmptyFlushHarmless ==
    \A K \in Kinds :
        \A r \in InsertOutcomes(writer, K) \cup {flush(writer, K)} :
            r.exc = "WriteError" => WrittenBeforeOther(writer.written, K)

(***************************************************************************)
(* Properties of the round trip.                                           *)
(***************************************************************************)
\* The value of a material in units of 1e-4: 2 == 2.0 in Python.
MatValue(m) == IF m.isint THEN m.v * 10000 ELSE m.v

SameElement(a, b) ==
    /\ a.card = b.card
    /\ a.id = b.id
    /\ a.nodes = b.nodes
    /\ Len(a.materials) = Len(b.materials)
    /\ \A i \in 1..Len(a.materials) :
           MatValue(a.materials[i]) = MatValue(b.materials[i])

\* C3 as claimed: every mesh the reading path accepts can be written -
\* no insert and no close() raises - and loading the written lines gives
\* the same nodes (IDs), elements (card, ID, nodes, materials) and node
\* strings (nodes, name), in the same order.
C3_RoundTrip ==
    /\ status # "raised"
    /\ status = "loaded" =>
           /\ loaded[1].exc = "none"
           /\ Len(loaded[1].nodes) = Len(mesh.nodes)
           /\ \A i \in 1..Len(mesh.nodes) : loaded[1].nodes[i].id = mesh.nodes[i].id
           /\ Len(loaded[1].elements) = Len(mesh.elements)
           /\ \A i \in 1..Len(mesh.elements) :
                  SameElement(loaded[1].elements[i], mesh.elements[i])
           /\ loaded[1].node_strings = mesh.node_strings

(***************************************************************************)
(* Properties of the metadata scan.                                        *)
(***************************************************************************)
IsNodeRecord(line) == FirstWordIs(line, "ND")

IsElementRecord(line) == line.toks # <<>> /\ card_is_element(line.toks[1])

\* The IDs of the records of a file, in file order.
NodeIds(lines) ==
    LET recs == SelectSeq(lines, IsNodeRecord)
    IN  [i \in 1..Len(recs) |-> IntOf(recs[i].toks[2])]

ElementIds(lines) ==
    LET recs == SelectSeq(lines, IsElementRecord)
    IN  [i \in 1..Len(recs) |-> IntOf(recs[i].toks[2])]

ScanBase == IF allow_zero_index THEN 0 ELSE 1

\* The range [base, base + Len(ids)) in increasing order.
IsRangeFrom(ids, base) == ids = [i \in 1..Len(ids) |-> base + i - 1]

\* C4 as claimed: if the scan accepts the file, the node IDs are the range
\* [base, base + num_nodes) and the element IDs are the range
\* [base, base + num_elements), base being 0 in zero-index mode and 1
\* otherwise.
C4_IdsContiguousFromBase ==
    (metadata # <<>> /\ metadata[1].exc = "none") =>
        /\ metadata[1].ret[1].num_nodes = Len(NodeIds(file_))
        /\ metadata[1].ret[1].num_elements = Len(ElementIds(file_))
        /\ IsRangeFrom(NodeIds(file_), ScanBase)
        /\ IsRangeFrom(ElementIds(file_), ScanBase)

\* Two successive records whose IDs do not differ by +1.
HasBadStep(ids) == \E i \in 1..(Len(ids) - 1) : ids[i + 1] # ids[i] + 1

\* The first line that is not blank once comments are stripped is the
\* MESH2D line.
StartsWithMesh2d(lines) ==
    \E i \in 1..Len(lines) :
        /\ FirstWordIs(lines[i], "MESH2D")
        /\ \A j \in 1..(i - 1) : IsBlank(strip_comment(lines[j]))

\* C5 as claimed: the scan of a 2DM file in which two successive node
\* records, or two successive element records, have IDs that do not differ
\* by +1 raises FormatError and returns nothing.
C5_BadStepRaisesFormatError ==
    (/\ metadata # <<>>
     /\ StartsWithMesh2d(file_)
     /\ HasBadStep(NodeIds(file_)) \/ HasBadStep(ElementIds(file_)))
    => /\ metadata[1].exc = "FormatError"
       /\ metadata[1].ret = <<>>

\* C17: the scan raises ReadError exactly when the first line that is not
\* blank after comment stripping is not the MESH2D line, or the file has no
\* such line; when it does, it returns nothing and its loop has counted no
\* node, element or node string.
C17_ReadErrorIffNoMesh2d ==
    metadata # <<>> =>
        /\ metadata[1].exc = "ReadError" <=> ~StartsWithMesh2d(file_)
        /\ metadata[1].exc = "ReadError" =>
               LET s == scan_lines(scan_start, file_, 1, allow_zero_index)
               IN  /\ metadata[1].ret = <<>>
                   /\ s.num_nodes = 0
                   /\ s.num_elements = 0
                   /\ s.num_node_strings = 0

\* A file whose MESH2D line comes after a node record was refused.
C17_Witness ==
    /\ metadata # <<>>
    /\ metadata[1].exc = "ReadError"
    /\ Len(file_) >= 2
    /\ IsNodeRecord(file_[1])
    /\ FirstWordIs(file_[2], "MESH2D")

IsMaterialsCard(line) == FirstWordIs(line, "NUM_MATERIALS_PER_ELEM")

\* The value of the last NUM_MATERIALS_PER_ELEM card, <<>> without a card.
MaterialsCardValue(lines) ==
    LET cards == SelectSeq(lines, IsMaterialsCard)
    IN  IF cards = <<>> THEN <<>> ELSE <<IntOf(Last(cards).toks[2])>>

\* C20 as claimed: the materials-per-element value the scan returns is the
\* value of the NUM_MATERIALS_PER_ELEM card, none without a card, whatever
\* node, element and node string records the file holds.
C20_MaterialsFromCard ==
    (metadata # <<>> /\ metadata[1].exc = "none") =>
        metadata[1].ret[1].num_materials_per_elem = MaterialsCardValue(file_)

(***************************************************************************)
(* Properties of the card parsers.                                         *)
(***************************************************************************)
\* The IDs of an ND line (the node ID) or of an element line (the element
\* ID and the IDs of its nodes).
LineIds(line) ==
    IF FirstWordIs(line, "ND") THEN {IntOf(line.toks[2])}
    ELSE {IntOf(line.toks[i]) : i \in 2..(nodes_per_element(line.toks[1].s) + 2)}

\* C16 as claimed: parsing an ND line or an element line raises FormatError
\* exactly when one of its IDs (node ID, element ID, node IDs of the
\* element) is below the smallest legal ID, which is 1 with zero-index mode
\* off and 0 with zero-index mode on.
C16_IdsValidated ==
    (/\ outcome # <<>>
     /\ ~FirstWordIs(consumed[1], "NS"))
    => (outcome[1].exc = "FormatError"
            <=> \E id \in LineIds(consumed[1]) :
                    id < (IF zero_mode THEN 0 ELSE 1))

\* The tokens of an NS line after the card.
Fields(line) == Tail(line.toks)

\* All lines of the entity, parsed or not.
AllLines == consumed \o pending

\* The one line that holds the fields of all the lines.
Joined(lines) ==
    Line(FALSE, <<Word("NS")>> \o Flatten([i \in 1..Len(lines) |-> Fields(lines[i])]))

IsNegative(tok) == tok.t = "i" /\ IntOf(tok) < 0

\* The node tokens end in a terminator: the last integer of the fields is
\* negative and no integer before it is.
EndsInTerminator(fields) ==
    \E f \in 1..Len(fields) :
        /\ IsNegative(fields[f])
        /\ \A i \in 1..(f - 1) : fields[i].t = "i" /\ ~IsNegative(fields[i])
        /\ \A i \in (f + 1)..Len(fields) : fields[i].t = "w"

\* C11 as claimed: if the fields of the NS lines end in a terminator and the
\* one line that joins them parses, then feeding the lines one at a time,
\* the node string in progress passed back in, raises nothing and ends with
\* the node string and the done flag the joined line gives.
C11_ContinuationIdempotent ==
    LET joined == node_string_from_line(Joined(AllLines), <<>>, zero_mode)
    IN  (/\ AllLines # <<>>
         /\ FirstWordIs(AllLines[1], "NS")
         /\ EndsInTerminator(Fields(Joined(AllLines)))
         /\ joined.exc = "none"
         /\ outcome # <<>>)
        => /\ outcome[1].exc = "none"
           /\ pending = <<>> => outcome[1].val = joined.val

\* The index of the first negative field of a line, 0 if it has none.
FirstNegative(fields) ==
    IF \E i \in 1..Len(fields) : IsNegative(fields[i])
    THEN CHOOSE i \in 1..Len(fields) :
             IsNegative(fields[i]) /\ \A j \in 1..(i - 1) : ~IsNegative(fields[j])
    ELSE 0

\* The text of a token without surrounding double quotes.
Unquoted(tok) == IF tok = Word("\"a\"") THEN "a" ELSE TokText(tok)

\* The nodes of the node string in progress.
HeldNodes == IF InProgress = <<>> THEN <<>> ELSE InProgress[1].nodes

\* C12: a from_line call on an NS line that returns has appended the
\* absolute values of the fields up to and including the first negative one
\* (of all fields if none is negative) and nothing else, reports done
\* exactly if the line has a negative field, and has set the name to the
\* field after the first negative one, without its double quotes, if there
\* is such a field.  (A field is negative if its value is: "-0" is not.)
C12_LineParsedToTerminator ==
    (/\ pending # <<>>
     /\ FirstWordIs(Head(pending), "NS")
     /\ outcome # <<>> => outcome[1].exc = "none")
    => LET fields == Fields(Head(pending))
           f == FirstNegative(fields)
           upto == IF f = 0 THEN Len(fields) ELSE f
           r == node_string_from_line(Head(pending), InProgress, zero_mode)
       IN  r.exc = "none" =>
               /\ r.val[1].nodes =
                      HeldNodes \o [i \in 1..upto |-> Abs(IntOf(fields[i]))]
               /\ r.val[2] <=> f # 0
               /\ (f # 0 /\ f < Len(fields)) =>
                      r.val[1].name = <<Unquoted(fields[f + 1])>>
               /\ (f = 0 \/ f = Len(fields)) =>
                      r.val[1].name = (IF InProgress = <<>> THEN <<>>
                                       ELSE InProgress[1].name)

\* A second line was parsed that holds the terminator and a quoted name:
\* the node string is done, has three nodes and the name a.
C12_Witness ==
    /\ Len(consumed) = 2
    /\ Len(Fields(consumed[2])) = 2
    /\ consumed[2].toks[3] = Word("\"a\"")
    /\ outcome[1].exc = "none"
    /\ outcome[1].val[2]
    /\ Len(outcome[1].val[1].nodes) = 3
    /\ outcome[1].val[1].name = <<"a">>

IsPrefix(p, q) == Len(p) <= Len(q) /\ SubSeq(q, 1, Len(p)) = p

\* C13: a from_line call that is given the node string in progress and
\* returns keeps the nodes held before as a prefix of the nodes it returns,
\* and reports not-done if the line has no negative field.
C13_ContinuationKeepsNodes ==
    (/\ pending # <<>>
     /\ FirstWordIs(Head(pending), "NS")
     /\ outcome # <<>>
     /\ outcome[1].exc = "none")
    => LET r == node_string_from_line(Head(pending), InProgress, zero_mode)
       IN  r.exc = "none" =>
               /\ IsPrefix(HeldNodes, r.val[1].nodes)
               /\ Len(r.val[1].nodes) > Len(HeldNodes)
               /\ FirstNegative(Fields(Head(pending))) = 0 => ~r.val[2]

\* Two lines without a negative field were parsed one after the other: the
\* node string holds the two nodes of the first and the node of the second
\* and is not done.
C13_Witness ==
    /\ Len(consumed) = 2
    /\ pending = <<>>
    /\ outcome[1].exc = "none"
    /\ ~outcome[1].val[2]
    /\ Len(outcome[1].val[1].nodes) = 3
    /\ SubSeq(outcome[1].val[1].nodes, 1, 2)
           = [i \in 1..2 |-> IntOf(Fields(consumed[1])[i])]
    /\ \A i \in 1..2 : FirstNegative(Fields(consumed[i])) = 0

(***************************************************************************)
(* Properties of the Reader.                                               *)
(***************************************************************************)
\* The IDs and bounds the Reader is asked about.
ReaderIds == (-1)..(MaxScanLines + 2)

\* The base of the IDs of a reader.
ReaderBase(rd) == IF rd.zero_index THEN 0 ELSE 1

\* What the lookups, iterations and queries of a reader raise ("none" for a
\* call that returns).
ReaderRaises(rd) ==
    {reader_num_nodes(rd).exc, reader_num_elements(rd).exc,
     reader_num_node_strings(rd).exc}
    \cup {reader_node(rd, i).exc : i \in ReaderIds}
    \cup {reader_element(rd, i).exc : i \in ReaderIds}
    \cup {reader_iter_nodes(rd, s, e).exc : s \in ReaderIds, e \in ReaderIds}
    \cup {reader_iter_elements(rd, s, e).exc : s \in ReaderIds, e \in ReaderIds}

\* C15: a Reader is closed after close(): every lookup, iteration or query
\* issued after close() raises FileIsClosedError.  (The Reader has no open();
\* the part of the claim about a reader not yet opened is not stated here.)
C15_ClosedReaderRaises ==
    phase = "closed" =>
        ReaderRaises(reader[1]) = {"FileIsClosedError"}

\* The outcome r of a lookup is as C18 says: KeyError for an ID outside
\* [b, b+n), and the entity of that ID for an ID inside.
LookupAsClaimed(r, id_, b, n) ==
    IF b <= id_ /\ id_ < b + n
    THEN r.exc = "none" /\ r.val.id = id_
    ELSE r.exc = "KeyError"

\* C18: for a loaded mesh with n nodes and base b, node(id) raises KeyError
\* for every id outside [b, b+n) and returns the node whose id is id for
\* every id inside; the same holds for element(id) and the element count.
\* A loaded mesh is a reader constructed without lazy=True.
C18_LookupById ==
    (phase = "ready" /\ ~reader[1].lazy) =>
        LET rd == reader[1]
        IN  \A id_ \in ReaderIds :
                /\ LookupAsClaimed(reader_node(rd, id_), id_,
                                   ReaderBase(rd), rd.num_nodes)
                /\ LookupAsClaimed(reader_element(rd, id_), id_,
                                   ReaderBase(rd), rd.num_elements)

\* The outcome r of an iteration yields the entities of the IDs lo..hi-1
\* in this order.
Yields(r, lo, hi) ==
    /\ r.exc = "none"
    /\ r.val # <<>>
    /\ [i \in 1..Len(r.val[1]) |-> r.val[1][i].id]
           = [i \in 1..(IF hi > lo THEN hi - lo ELSE 0) |-> lo + i - 1]

\* The outcome r of iterating from start to end over n entities of base b
\* is as C19 says.
IterationAsClaimed(r, start, end, b, n) ==
    /\ (start < 0 /\ end < 0) => Yields(r, b, b + n)
    /\ (start >= 0 /\ end >= 0 /\ end <= start) => r.exc = "IndexError"
    /\ (b <= start /\ start < end /\ end <= b + n) => Yields(r, start, end)

\* C19: iter_nodes(start, end) and iter_elements(start, end) yield, in
\* ascending ID order, exactly the entities with start <= id < end, a call
\* with negative bounds yielding every entity of the mesh once, and they
\* raise IndexError when end <= start.
C19_RangeIteration ==
    (phase = "ready" /\ ~reader[1].lazy) =>
        LET rd == reader[1]
        IN  \A s \in ReaderIds, e \in ReaderIds :
                /\ IterationAsClaimed(reader_iter_nodes(rd, s, e), s, e,
                                      ReaderBase(rd), rd.num_nodes)
                /\ IterationAsClaimed(reader_iter_elements(rd, s, e), s, e,
                                      ReaderBase(rd), rd.num_elements)

(***************************************************************************)
(* Properties of the entities.                                             *)
(***************************************************************************)
\* C24: a constructor of one of the seven Element variants raises CardError
\* when the number of nodes it is given differs from the variant's
\* num_nodes, the constructor of NodeString raises CardError when it is
\* given fewer than two nodes, and an entity that is constructed has exactly
\* the nodes given.
C24_NodeCountChecked ==
    request # <<>> =>
        LET call == request[1]
            r == entity[1]
            wrong == IF call.kind = "element"
                     THEN Len(call.nodes) # nodes_per_element(call.card)
                     ELSE Len(call.nodes) < 2
        IN  /\ wrong => r.exc = "CardError"
            /\ r.exc = "none" => ~wrong /\ r.val.nodes = call.nodes

\* An E9Q is refused eight nodes and ten nodes.
C24_Witness ==
    /\ request # <<>>
    /\ request[1].kind = "element"
    /\ request[1].card = "E9Q"
    /\ Len(request[1].nodes) = 10
    /\ entity[1].exc = "CardError"

\* The node IDs are legal for from_line: at least 1, or at least 0 when
\* allow_zero_index is set.
LegalNodeIds(nodes) ==
    \A i \in 1..Len(nodes) : nodes[i] >= (IF relaxed THEN 0 ELSE 1)

\* NodeString.__eq__
SameNodeString(a, b) == a.nodes = b.nodes /\ a.name = b.name

\* C30: for a node string with legal node IDs and a positive fold width, the
\* lines of to_line(fold_after=w), given in order to from_line, are all
\* accepted, from_line reports done on the last line and on no line before
\* it, and the node string returned for the last line equals the one that
\* was written.
C30_FoldRoundTrip ==
    (folded # <<>> /\ LegalNodeIds(entity[1].val.nodes)) =>
        /\ rebuilt # <<>> => rebuilt[1].exc = "none"
        /\ \A i \in 1..Len(fed) : fed[i] = (i = Len(folded))
        /\ Len(fed) = Len(folded) =>
               SameNodeString(rebuilt[1].val[1], entity[1].val)

(***************************************************************************)
(* Properties of the Writer and the objects of its caller.                 *)
(***************************************************************************)
\* C22: node(), element() and node_string() given an instance of the caller
\* leave the instance as it is, whether they return or raise, also when
\* they replace a negative ID or cut off excess materials; and when the
\* caller afterwards assigns to an instance, the buffered entities keep
\* their values.
C22_InstancesCopied ==
    \A a \in held :
        /\ \A extra \in BOOLEAN :
               insert_instance(CopyState, a, extra).heap[a] = heap[a]
        /\ \A v \in Reassigned(heap[a]) :
               LET st == caller_assign(CopyState, a, v)
               IN  \A K \in Kinds :
                       deref(st.heap, st.refs[K]) = deref(heap, refs[K])

\* An element given with a negative ID and two materials was buffered with
\* an ID of the writer and one material, and the caller's instance still
\* has the negative ID and both materials.
C22_Witness ==
    /\ \E a \in held :
           /\ heap[a].card = "E2L"
           /\ heap[a].id < 0
           /\ Len(heap[a].materials) = 2
    /\ \E i \in 1..Len(refs["element"]) :
           /\ refs["element"][i] \notin held
           /\ heap[refs["element"][i]].id >= 0
           /\ heap[refs["element"][i]].materials = <<FloatMat(15000)>>

(***************************************************************************)
(* Properties of merge_meshes.                                             *)
(***************************************************************************)
\* Node.__eq__
SameNode(a, b) == a.id = b.id /\ a.x = b.x /\ a.y = b.y /\ a.z = b.z

\* The mesh m has every node of m1 with its ID and coordinates, every
\* element of m1 with its ID, card, nodes and materials, and for every node
\* of m2 a node at the same (x, y, z).
MergedFrom(m, m1, m2) ==
    /\ m.exc = "none"
    /\ \A i \in 1..Len(m1.nodes) :
           \E j \in 1..Len(m.nodes) : SameNode(m.nodes[j], m1.nodes[i])
    /\ \A i \in 1..Len(m1.elements) :
           \E j \in 1..Len(m.elements) :
               SameElement(m.elements[j], m1.elements[i])
    /\ \A i \in 1..Len(m2.nodes) :
           \E j \in 1..Len(m.nodes) :
               /\ m.nodes[j].x = m2.nodes[i].x
               /\ m.nodes[j].y = m2.nodes[i].y
               /\ m.nodes[j].z = m2.nodes[i].z

\* C26: when merge_meshes returns, the mesh loaded from its output has
\* every node of the first mesh unchanged under its ID, every element of
\* the first mesh unchanged under its ID (same nodes, same materials), and
\* every node position of the second mesh.
C26_MergeKeepsBase ==
    reloaded # <<>> =>
        MergedFrom(reloaded[1], process_entities(mesh1),
                   process_entities(mesh2))

(***************************************************************************)
(* Properties of the Writer that refer to the metadata scan.               *)
(***************************************************************************)
\* The IDs of the buffered entities of kind K, in buffer order.
BufferedIds(K) == [i \in 1..Len(writer.cache[K]) |-> writer.cache[K][i].id]

\* The IDs the inputs of the inserts give explicitly.
GivenIds == {id \in NodeIdInputs : id >= 0}

\* Every entity with the IDs ids was inserted with a negative ID: an auto
\* ID is less than every ID of GivenIds.
AutoOnly(ids) == \A i \in 1..Len(ids) : ids[i] \notin GivenIds

\* C29: if every node (every element) was inserted with a negative ID, the
\* IDs written for the kind, followed by the IDs still buffered, are base,
\* base+1, ... in this order, whatever inserts and flushes were made; if this
\* is so for both kinds, the file written since open() passes scan_metadata,
\* which counts its nodes and elements.
C29_AutoIdsContiguous ==
    LET node_ids == NodeIds(writer.written) \o BufferedIds("node")
        element_ids == ElementIds(writer.written) \o BufferedIds("element")
        scan == scan_metadata(writer.file, writer.zero_index)
    IN  /\ AutoOnly(node_ids) => IsRangeFrom(node_ids, Base)
        /\ AutoOnly(element_ids) => IsRangeFrom(element_ids, Base)
        /\ (/\ AutoOnly(node_ids)
            /\ AutoOnly(element_ids)
            /\ writer.file = writer.written
            /\ writer.file # <<>>)
           => /\ scan.exc = "none"
              /\ scan.ret[1].num_nodes = Len(NodeIds(writer.file))
              /\ scan.ret[1].num_elements = Len(ElementIds(writer.file))

\* Two nodes and an element, all inserted with negative IDs, are written.
C29_Witness ==
    /\ NodeIds(writer.file) = <<Base, Base + 1>>
    /\ ElementIds(writer.file) = <<Base>>
    /\ writer.file = writer.written
    /\ Len(writer.write_history) = 3

====
